---- MODULE Spec2Model ----
(***************************************************************************)
(* Conversational scheduling engine of the clinic chatbot:                *)
(*   - ChatbotService (ai_service.py): the per-session dialogue state     *)
(*     machine, the slot generation engine and the choice interpreter;    *)
(*   - the /chat and /chat/upload routes of app.py that load and persist  *)
(*     the Conversa around every call;                                    *)
(*   - the tables of database.py the engine reads and writes.             *)
(*                                                                         *)
(* Dates are day numbers (day 0 is Monday 2026-01-05), times of day are   *)
(* minutes after midnight, messages are the strings the user typed.       *)
(***************************************************************************)
EXTENDS Integers, Sequences, FiniteSets, TLC

VARIABLES
    hoje,            \* date.today(), as a day number
    agora,           \* datetime.now().time(), minutes after midnight
    medicos,         \* table medicos (id = index)
    horarios_disp,   \* table horarios_disponiveis (id = index)
    pacientes,       \* table pacientes (id = index)
    agendamentos,    \* table agendamentos (id = index)
    conversas,       \* table conversas, one row per session
    arquivos,        \* table arquivos_paciente (id = index)
    recorrentes,     \* table agendamentos_recorrentes (id = index)
    atualizado_em,   \* column atualizado_em of conversas, per session
    gerados,         \* list the last request generated, if it did
    ultima           \* the last request served and its response

vars == <<hoje, agora, medicos, horarios_disp, pacientes, agendamentos,
          conversas, arquivos, recorrentes, atualizado_em, gerados,
          ultima>>

-----------------------------------------------------------------------------
(* Bounds of the model *)

MaxAgendamentos == 1      \* rows the agendamentos table may hold
MaxLinhas == 2            \* availability rows drawn for slot generation
MaxPacientes == 3         \* rows the pacientes table may hold
MaxArquivos == 1          \* rows the arquivos_paciente table may hold

-----------------------------------------------------------------------------
(* Program constants *)

DiasBusca == 50           \* range(50): candidate dates scanned
MaxHorarios == 5          \* len(horarios) >= 5: slots collected
MinDuracao == 5           \* duracao_consulta < 5 falls back to the default
DuracaoPadrao == 30       \* default consult duration, minutes
MargemMinutos == 60       \* timedelta(hours=1): lead time for today
Quinta == 3               \* weekday() of Thursday
TamanhoCpf == 11          \* len(cpf) == 11
MinutosDia == 1440

NULO == 0                 \* SQL NULL / Python None for an id or a date
GrandeInteiro == 1000000000

-----------------------------------------------------------------------------
(* Strings: str.lower, str.strip, the `in` substring test, re.findall(\d)  *)

Digitos == {"0", "1", "2", "3", "4", "5", "6", "7", "8", "9"}

LowerChar(c) ==
    CASE c = "A" -> "a" [] c = "B" -> "b" [] c = "C" -> "c" [] c = "D" -> "d"
      [] c = "E" -> "e" [] c = "F" -> "f" [] c = "G" -> "g" [] c = "H" -> "h"
      [] c = "I" -> "i" [] c = "J" -> "j" [] c = "K" -> "k" [] c = "L" -> "l"
      [] c = "M" -> "m" [] c = "N" -> "n" [] c = "O" -> "o" [] c = "P" -> "p"
      [] c = "Q" -> "q" [] c = "R" -> "r" [] c = "S" -> "s" [] c = "T" -> "t"
      [] c = "U" -> "u" [] c = "V" -> "v" [] c = "W" -> "w" [] c = "X" -> "x"
      [] c = "Y" -> "y" [] c = "Z" -> "z" [] OTHER -> c

Ch(s, i) == SubSeq(s, i, i)

RECURSIVE lower(_)
lower(s) ==
    IF Len(s) = 0 THEN ""
    ELSE LowerChar(Ch(s, 1)) \o lower(SubSeq(s, 2, Len(s)))

Brancos == {" ", "\t", "\n", "\r"}

RECURSIVE strip(_)
strip(s) ==
    IF Len(s) = 0 THEN ""
    ELSE IF Ch(s, 1) \in Brancos THEN strip(SubSeq(s, 2, Len(s)))
    ELSE IF Ch(s, Len(s)) \in Brancos THEN strip(SubSeq(s, 1, Len(s) - 1))
    ELSE s

\* Python's `k in s` for strings
contem(s, k) ==
    \E i \in 1..(Len(s) - Len(k) + 1) : SubSeq(s, i, i + Len(k) - 1) = k

\* any(palavra in s for palavra in palavras)
algum_em(s, palavras) == \E k \in palavras : contem(s, k)

\* ''.join(re.findall(r'\d', s))
RECURSIVE so_digitos(_)
so_digitos(s) ==
    IF Len(s) = 0 THEN ""
    ELSE (IF Ch(s, 1) \in Digitos THEN Ch(s, 1) ELSE "")
         \o so_digitos(SubSeq(s, 2, Len(s)))

eh_digito(s, i) == i >= 1 /\ i <= Len(s) /\ Ch(s, i) \in Digitos

\* re.match(r'^(\d+)$', s)
todo_digitos(s) == Len(s) > 0 /\ \A i \in 1..Len(s) : Ch(s, i) \in Digitos

ValorDigito(c) ==
    CASE c = "0" -> 0 [] c = "1" -> 1 [] c = "2" -> 2 [] c = "3" -> 3
      [] c = "4" -> 4 [] c = "5" -> 5 [] c = "6" -> 6 [] c = "7" -> 7
      [] c = "8" -> 8 [] c = "9" -> 9

RECURSIVE sem_zeros_a_esquerda(_)
sem_zeros_a_esquerda(s) ==
    IF Len(s) > 1 /\ Ch(s, 1) = "0"
    THEN sem_zeros_a_esquerda(SubSeq(s, 2, Len(s)))
    ELSE s

RECURSIVE valor_decimal(_)
valor_decimal(s) ==
    IF Len(s) = 0 THEN 0
    ELSE 10 * valor_decimal(SubSeq(s, 1, Len(s) - 1))
         + ValorDigito(Ch(s, Len(s)))

\* int(s) for a string of digits.  The program only compares the result
\* with list lengths, days, months, hours and minutes, so every number of
\* ten digits or more is represented by GrandeInteiro
para_int(s) ==
    IF Len(sem_zeros_a_esquerda(s)) > 9 THEN GrandeInteiro
    ELSE valor_decimal(sem_zeros_a_esquerda(s))

-----------------------------------------------------------------------------
(* Calendar: date.weekday, timedelta(days=..), strftime('%d/%m/%Y')        *)

weekday(d) == d % 7

Bissexto(a) == (a % 4 = 0 /\ a % 100 # 0) \/ a % 400 = 0

DiasNoMes(m, a) ==
    IF m = 2 THEN (IF Bissexto(a) THEN 29 ELSE 28)
    ELSE IF m \in {4, 6, 9, 11} THEN 30 ELSE 31

RECURSIVE Calendario(_, _, _)
Calendario(n, m, a) ==
    IF n > DiasNoMes(m, a)
    THEN Calendario(n - DiasNoMes(m, a),
                    IF m = 12 THEN 1 ELSE m + 1,
                    IF m = 12 THEN a + 1 ELSE a)
    ELSE [dia |-> n, mes |-> m, ano |-> a]

\* the calendar date of a day number: day 0 is Monday 2026-01-05
data_de(d) == Calendario(5 + d, 1, 2026)

timestamp(d, t) == d * MinutosDia + t

-----------------------------------------------------------------------------
(* Tables that the admin pages maintain; fixed during a chat              *)

Locais == <<
    [nome |-> "Contagem", cidade |-> "Contagem", ativo |-> TRUE],
    [nome |-> "Belo Horizonte", cidade |-> "Belo Horizonte", ativo |-> TRUE] >>

Especialidades == <<
    [nome |-> "Cardiologia", ativo |-> TRUE, requer_anexo |-> FALSE],
    [nome |-> "Ortopedia", ativo |-> TRUE, requer_anexo |-> TRUE] >>

IdsDe(tabela) == 1..Len(tabela)

\* BaseModel.find_by_id: the row, or NULO when there is none
existe(tabela, id) == id \in IdsDe(tabela)

-----------------------------------------------------------------------------
(* Slot generation engine: ChatbotService._gerar_horarios_disponiveis     *)

\* SELECT m.*, h.* FROM medicos m JOIN horarios_disponiveis h
\*   ON m.id = h.medico_id
\*   WHERE m.especialidade_id = ? AND h.local_id = ? AND m.ativo AND h.ativo
RECURSIVE consulta_medicos_horarios(_, _, _, _, _)
consulta_medicos_horarios(meds, hd, especialidade_id, local_id, i) ==
    IF i > Len(hd) THEN << >>
    ELSE LET h == hd[i]
             resto == consulta_medicos_horarios(meds, hd, especialidade_id,
                                                local_id, i + 1)
         IN IF /\ existe(meds, h.medico_id)
               /\ meds[h.medico_id].especialidade_id = especialidade_id
               /\ h.local_id = local_id
               /\ meds[h.medico_id].ativo
               /\ h.ativo
            THEN <<[id |-> h.medico_id,
                    nome |-> meds[h.medico_id].nome,
                    local_id |-> h.local_id,
                    dia_semana |-> h.dia_semana,
                    hora_inicio |-> h.hora_inicio,
                    hora_fim |-> h.hora_fim,
                    duracao_consulta |-> h.duracao_consulta]>> \o resto
            ELSE resto

\* an agenda that is open on every date
agenda_sempre_aberta(medico, data_consulta) == TRUE

\* Medico.agenda_aberta
agenda_aberta(medico, data_consulta) ==
    IF medico.data_abertura_agenda = NULO THEN TRUE
    ELSE data_consulta >= medico.data_abertura_agenda

\* _verificar_disponibilidade_slot: no scheduled appointment of the doctor
\* at that date and time, and no active row of agendamentos_recorrentes of
\* the doctor for that weekday and time whose period holds the date
verificar_disponibilidade_slot(ags, recs, medico_id, data, hora) ==
    /\ ~ \E i \in 1..Len(ags) :
            /\ ags[i].medico_id = medico_id
            /\ ags[i].data = data
            /\ ags[i].hora = hora
            /\ ags[i].status = "agendado"
    /\ ~ \E j \in 1..Len(recs) :
            /\ recs[j].medico_id = medico_id
            /\ recs[j].dia_semana = weekday(data)
            /\ recs[j].hora = hora
            /\ recs[j].ativo
            /\ recs[j].data_inicio <= data
            /\ (recs[j].data_fim = NULO \/ recs[j].data_fim >= data)

\* an occupancy check that consults the recurring rows as well
verificar_disponibilidade_com_recorrentes(ags, medico_id, data, hora, falha) ==
    verificar_disponibilidade_slot(ags, recorrentes, medico_id, data, hora)

\* a check that answers "available" without looking at the appointments
verificar_disponibilidade_sempre_livre(ags, medico_id, data, hora, falha) == TRUE

\* _verificar_disponibilidade_slot_simples:
\* SELECT COUNT(*) FROM agendamentos WHERE medico_id = ? AND data = ?
\*   AND hora = ? AND status = 'agendado'; available iff the count is 0,
\* and, in the except branch, available when the query raises
verificar_disponibilidade_slot_simples(ags, medico_id, data, hora, falha) ==
    IF falha = "verificar_disponibilidade" THEN TRUE
    ELSE ~ \E i \in 1..Len(ags) :
               /\ ags[i].medico_id = medico_id
               /\ ags[i].data = data
               /\ ags[i].hora = hora
               /\ ags[i].status = "agendado"

\* the consult duration of a row: its value when at least 5 minutes
duracao_da_linha(row) ==
    IF row.duracao_consulta # NULO
    THEN (IF row.duracao_consulta < MinDuracao THEN DuracaoPadrao
          ELSE row.duracao_consulta)
    ELSE DuracaoPadrao

\* a weekend test that lets Saturday through
fim_de_semana_so_domingo(dia_semana) == dia_semana >= 6

\* if dia_semana >= 5: continue
fim_de_semana(dia_semana) == dia_semana >= 5

\* data_atual == hoje and slot_datetime <= datetime.now() + 1 hour
horario_passado(data, t, hj, ag) ==
    data = hj /\ timestamp(data, t) <= timestamp(hj, ag) + MargemMinutos

\* a limit that lets a sixth slot in
limite_atingido_seis(horarios) == Len(horarios) >= MaxHorarios + 1

\* if len(horarios) >= 5: break
limite_atingido(horarios) == Len(horarios) >= MaxHorarios

horario_info(row, data, t) ==
    [medico_id |-> row.id,
     medico_nome |-> row.nome,
     local_id |-> row.local_id,
     data |-> data,
     hora |-> t,
     dia_semana |-> weekday(data),
     duracao |-> duracao_da_linha(row),
     timestamp |-> timestamp(data, t)]

\* while slot_datetime < fim_datetime: ... slot_datetime += duracao
RECURSIVE slots_da_linha(_, _, _, _, _, _, _, _)
slots_da_linha(row, data, t, horarios, ags, hj, ag, falha) ==
    IF ~(t < row.hora_fim) THEN horarios
    ELSE IF limite_atingido(horarios) THEN horarios
    ELSE IF horario_passado(data, t, hj, ag)
    THEN slots_da_linha(row, data, t + duracao_da_linha(row), horarios,
                        ags, hj, ag, falha)
    ELSE IF verificar_disponibilidade_slot_simples(ags, row.id, data, t,
                                                   falha)
    THEN slots_da_linha(row, data, t + duracao_da_linha(row),
                        Append(horarios, horario_info(row, data, t)),
                        ags, hj, ag, falha)
    ELSE slots_da_linha(row, data, t + duracao_da_linha(row), horarios,
                        ags, hj, ag, falha)

\* for row in rows: ...
RECURSIVE linhas_do_dia(_, _, _, _, _, _, _, _, _)
linhas_do_dia(rows, i, data, horarios, meds, ags, hj, ag, falha) ==
    IF i > Len(rows) \/ limite_atingido(horarios) THEN horarios
    ELSE LET row == rows[i]
             depois ==
                 IF row.dia_semana # weekday(data) THEN horarios
                 ELSE IF existe(meds, row.id)
                         /\ ~agenda_aberta(meds[row.id], data)
                 THEN horarios
                 ELSE slots_da_linha(row, data, row.hora_inicio, horarios,
                                     ags, hj, ag, falha)
         IN linhas_do_dia(rows, i + 1, data, depois, meds, ags, hj, ag,
                          falha)

\* for dia in range(50): ...
RECURSIVE dias_seguintes(_, _, _, _, _, _, _, _)
dias_seguintes(rows, dia, horarios, meds, ags, hj, ag, falha) ==
    IF dia >= DiasBusca \/ limite_atingido(horarios) THEN horarios
    ELSE LET data == hj + dia
             depois ==
                 IF fim_de_semana(weekday(data)) THEN horarios
                 ELSE linhas_do_dia(rows, 1, data, horarios, meds, ags,
                                    hj, ag, falha)
         IN dias_seguintes(rows, dia + 1, depois, meds, ags, hj, ag, falha)

\* a sort key that is chronological only
sort_key_cronologico(h) == <<1, h.timestamp>>

\* sort_key: Thursday first, then by timestamp
sort_key(h) ==
    <<IF weekday(h.data) = Quinta THEN 0 ELSE 1, h.timestamp>>

chave_menor(k1, k2) == k1[1] < k2[1] \/ (k1[1] = k2[1] /\ k1[2] < k2[2])

\* sorted(horarios, key=sort_key): a stable sort
RECURSIVE inserir_ordenado(_, _)
inserir_ordenado(s, h) ==
    IF Len(s) = 0 THEN <<h>>
    ELSE IF chave_menor(sort_key(h), sort_key(Head(s))) THEN <<h>> \o s
    ELSE <<Head(s)>> \o inserir_ordenado(Tail(s), h)

RECURSIVE sorted(_, _)
sorted(s, acc) ==
    IF Len(s) = 0 THEN acc
    ELSE sorted(Tail(s), inserir_ordenado(acc, Head(s)))

\* horarios_ordenados[:5]
primeiros(s, n) == SubSeq(s, 1, IF Len(s) < n THEN Len(s) ELSE n)

\* the lookups of the engine that may raise: none, Medico.find_by_id, the
\* occupancy query, _obter_nome_local
Consultas == {"nenhuma", "find_by_id", "verificar_disponibilidade",
              "obter_nome_local"}

\* Medico.find_by_id is called: some row is of the weekday of a working day
\* of the window
medico_consultado(rows, hj) ==
    \E dia \in 0..(DiasBusca - 1), i \in 1..Len(rows) :
        /\ ~fim_de_semana(weekday(hj + dia))
        /\ rows[i].dia_semana = weekday(hj + dia)

\* the except branch of _gerar_horarios_disponiveis: a lookup that raises
\* outside _verificar_disponibilidade_slot_simples gives the empty list;
\* _obter_nome_local is called for the first slot to append
resultado_da_geracao(coletados, consultou_medico, falha) ==
    IF falha = "find_by_id" /\ consultou_medico THEN << >>
    ELSE IF falha = "obter_nome_local" /\ coletados # << >> THEN << >>
    ELSE primeiros(sorted(coletados, << >>), MaxHorarios)

\* _gerar_horarios_disponiveis
gerar_horarios_disponiveis(rows, meds, ags, hj, ag, falha) ==
    resultado_da_geracao(
        dias_seguintes(rows, 0, << >>, meds, ags, hj, ag, falha),
        medico_consultado(rows, hj), falha)

-----------------------------------------------------------------------------
(* Slot generation on its own: the inputs are drawn in the initial state   *)
(* and the engine is applied to the rows of a (specialty, location) pair   *)

MaxOcupados == 1          \* appointments drawn for slot generation

RECURSIVE SeqsAte(_, _)
SeqsAte(S, n) ==
    IF n = 0 THEN {<< >>}
    ELSE LET menores == SeqsAte(S, n - 1)
         IN menores \cup {Append(q, x) : q \in menores, x \in S}

Janela1 == [hora_inicio |-> 480, hora_fim |-> 540, duracao_consulta |-> 30]

\* a window that is not a whole number of consults long
Janela2 == [hora_inicio |-> 480, hora_fim |-> 560, duracao_consulta |-> 3]

LinhaG(m, d, j) ==
    [medico_id |-> m, local_id |-> 1, dia_semana |-> d,
     hora_inicio |-> j.hora_inicio, hora_fim |-> j.hora_fim,
     duracao_consulta |-> j.duracao_consulta, ativo |-> TRUE]

LinhasG == { LinhaG(1, 2, Janela1), LinhaG(1, 2, Janela2),
             LinhaG(1, 3, Janela2), LinhaG(1, 5, Janela1),
             LinhaG(2, 2, Janela2), LinhaG(2, 3, Janela1) }

MedicosG == { << [nome |-> "Dra. Maria Santos", especialidade_id |-> 1,
                  ativo |-> TRUE, data_abertura_agenda |-> a],
                 [nome |-> "Dr. Pedro Lima", especialidade_id |-> 1,
                  ativo |-> TRUE, data_abertura_agenda |-> NULO] >> :
              a \in {NULO, 8} }

OcupadosG == { [paciente_id |-> 1, medico_id |-> 1, especialidade_id |-> 1,
                local_id |-> 1, data |-> d, hora |-> 480, status |-> st,
                anexo_nome |-> "", motivo_cancelamento |-> "",
                cancelado_em |-> NULO] :
               d \in {2, 3}, st \in {"agendado", "cancelado"} }

PacientesIniciais ==
    << [cpf |-> "11111111111", nome |-> "Ana Costa",
        data_nascimento |-> <<1990, 3, 15>>, telefone |-> "31999990000",
        email |-> "", carteirinha |-> "",
        tipo_atendimento |-> "particular"] >>

SemConversas == [s \in {} |-> NULO]

InitGerador ==
    /\ hoje \in {1, 2, 3}
    /\ agora \in {450, 600}
    /\ medicos \in MedicosG
    /\ horarios_disp \in SeqsAte(LinhasG, MaxLinhas)
    /\ agendamentos \in SeqsAte(OcupadosG, MaxOcupados)
    /\ pacientes = PacientesIniciais
    /\ conversas = SemConversas
    /\ arquivos = << >>
    /\ recorrentes = << >>
    /\ atualizado_em = SemConversas
    /\ gerados = << >>
    /\ ultima = [op |-> "nenhuma"]

\* _gerar_horarios_disponiveis(rows) on the rows of specialty 1, location 1
Gerar ==
    /\ gerados' = gerar_horarios_disponiveis(
                      consulta_medicos_horarios(medicos, horarios_disp, 1, 1, 1),
                      medicos, agendamentos, hoje, agora, "nenhuma")
    /\ ultima' = [op |-> "gerar"]
    /\ UNCHANGED <<hoje, agora, medicos, horarios_disp, pacientes,
                   agendamentos, conversas, arquivos, recorrentes,
                   atualizado_em>>

NextGerador == Gerar

SpecGerador == InitGerador /\ [][NextGerador]_vars

\* _gerar_horarios_disponiveis(rows) while one of its lookups raises
GerarComFalha(falha) ==
    /\ gerados' = gerar_horarios_disponiveis(
                      consulta_medicos_horarios(medicos, horarios_disp, 1, 1, 1),
                      medicos, agendamentos, hoje, agora, falha)
    /\ ultima' = [op |-> "gerar", falha |-> falha]
    /\ UNCHANGED <<hoje, agora, medicos, horarios_disp, pacientes,
                   agendamentos, conversas, arquivos, recorrentes,
                   atualizado_em>>

NextGeradorFalhas == \E falha \in Consultas : GerarComFalha(falha)

SpecGeradorFalhas == InitGerador /\ [][NextGeradorFalhas]_vars

-----------------------------------------------------------------------------
(* Slot generation beside the table of recurring appointments              *)

MaxRecorrentes == 1       \* rows the agendamentos_recorrentes table may hold

\* AgendamentoRecorrente.create: a weekly block of a doctor at 08:00
AgendamentoRecorrente_create(medico_id, dia_semana, data_fim) ==
    /\ Len(recorrentes) < MaxRecorrentes
    /\ recorrentes' = Append(recorrentes,
                             [paciente_id |-> 1, medico_id |-> medico_id,
                              dia_semana |-> dia_semana, hora |-> 480,
                              data_inicio |-> 1, data_fim |-> data_fim,
                              ativo |-> TRUE])
    /\ UNCHANGED <<hoje, agora, medicos, horarios_disp, pacientes,
                   agendamentos, conversas, arquivos, atualizado_em,
                   gerados, ultima>>

NextRecorrentes ==
    \/ Gerar
    \/ \E medico_id \in {1, 2}, dia_semana \in {2, 3}, data_fim \in {NULO, 4} :
          AgendamentoRecorrente_create(medico_id, dia_semana, data_fim)

SpecRecorrentes == InitGerador /\ [][NextRecorrentes]_vars

-----------------------------------------------------------------------------
(* The draft of a Conversa: Conversa.get_dados / set_dados keep a dict     *)
(* whose keys come and go; a draft is a function on the keys it holds     *)

Vazio == << >>

tem(d, k) == k \in DOMAIN d

get(d, k, padrao) == IF k \in DOMAIN d THEN d[k] ELSE padrao

put(d, k, v) == [x \in (DOMAIN d) \cup {k} |-> IF x = k THEN v ELSE d[x]]

\* a response of the chatbot
Resposta(success, message, tipo, proximo_estado) ==
    [success |-> success, message |-> message, tipo |-> tipo,
     proximo_estado |-> proximo_estado, horarios |-> << >>,
     agendamentos |-> << >>, agendamento_id |-> NULO]

\* what a handler leaves behind: the Conversa object, the two tables it
\* writes, the response, whether an exception left the handler, whether a
\* call of the handler raised at all (falhou), and the list slot generation
\* returned when the handler ran it with the candidate the choice
\* interpreter picked from it
Retorno(c, pacs, ags, resp) ==
    [c |-> c, pacientes |-> pacs, agendamentos |-> ags, resp |-> resp,
     excecao |-> FALSE, falhou |-> FALSE, gerou |-> FALSE,
     horarios |-> << >>, escolha |-> << >>]

Excecao(c, pacs, ags) ==
    [c |-> c, pacientes |-> pacs, agendamentos |-> ags,
     resp |-> Resposta(FALSE, "excecao", "erro", "inicio"),
     excecao |-> TRUE, falhou |-> TRUE, gerou |-> FALSE,
     horarios |-> << >>, escolha |-> << >>]

\* _resposta_erro
resposta_erro(message) == Resposta(FALSE, message, "erro", "inicio")

-----------------------------------------------------------------------------
(* Keyword tests and field validators                                     *)

\* a greeting test that does not know "oi"
eh_saudacao_sem_oi(mensagem) ==
    algum_em(lower(mensagem),
             {"olá", "ola", "hey", "hello", "bom dia", "boa tarde",
              "boa noite"})

\* _eh_saudacao
eh_saudacao(mensagem) ==
    algum_em(lower(mensagem),
             {"oi", "olá", "ola", "hey", "hello", "bom dia", "boa tarde",
              "boa noite"})

\* a cancellation test that does not know "cancelar"
eh_cancelamento_sem_cancelar(mensagem) ==
    algum_em(lower(mensagem),
             {"desmarcar", "remover consulta", "cancelo", "cancelamento"})

\* _eh_cancelamento
eh_cancelamento(mensagem) ==
    algum_em(lower(mensagem),
             {"cancelar", "desmarcar", "remover consulta", "cancelo",
              "cancelamento"})

\* an ID extraction that keeps the first 11 digits of a longer number
extrair_cpf_onze_primeiros(mensagem) ==
    LET cpf == so_digitos(mensagem)
    IN IF Len(cpf) >= TamanhoCpf THEN SubSeq(cpf, 1, TamanhoCpf) ELSE ""

\* _extrair_cpf; "" stands for None
extrair_cpf(mensagem) ==
    LET cpf == so_digitos(mensagem)
    IN IF Len(cpf) = TamanhoCpf THEN cpf ELSE ""

\* a telephone extraction that is content with five digits
extrair_telefone_cinco_digitos(mensagem) ==
    LET telefone == so_digitos(mensagem)
    IN IF Len(telefone) >= 5 /\ Len(telefone) <= 11 THEN telefone ELSE ""

\* _extrair_telefone; "" stands for None
extrair_telefone(mensagem) ==
    LET telefone == so_digitos(mensagem)
    IN IF Len(telefone) >= 10 /\ Len(telefone) <= 11 THEN telefone ELSE ""

\* the answers of the remote classifier: the text of the response, one of
\* the five labels or a text that is none of them, or "falha" for a call
\* that raises
RespostasIA == {"agendamento", "cancelamento", "consulta", "informacao",
                "fora_escopo", "invalida", "falha"}

\* more texts the remote classifier may answer with: a label in another
\* case or with blanks around it, an empty text, a sentence
TextosIA == RespostasIA \cup
            {" Cancelamento", "CONSULTA\n", "Informacao ", "", "informacao.",
             "agendamento cancelamento"}

Rotulos == {"agendamento", "cancelamento", "consulta", "informacao",
            "fora_escopo"}

\* keyword rules that look at the information list before the lookup list
tipo_por_palavras_informacao_antes(mensagem) ==
    LET mensagem_lower == strip(lower(mensagem))
    IN IF algum_em(mensagem_lower,
                   {"cancelar", "desmarcar", "remover consulta", "cancelo"})
       THEN "cancelamento"
       ELSE IF algum_em(mensagem_lower,
                        {"telefone", "endereço", "onde fica",
                         "horário funcionamento", "localização"})
       THEN "informacao"
       ELSE IF algum_em(mensagem_lower,
                        {"meus agendamentos", "minhas consultas",
                         "consultar agendamento", "ver consultas"})
       THEN "consulta"
       ELSE IF algum_em(mensagem_lower,
                        {"clima", "tempo", "futebol", "política",
                         "receita culinária"})
       THEN "fora_escopo"
       ELSE ""

\* the keyword rules at the head of _detectar_tipo_mensagem; "" when no
\* list matches
tipo_por_palavras(mensagem) ==
    LET mensagem_lower == strip(lower(mensagem))
    IN IF algum_em(mensagem_lower,
                   {"cancelar", "desmarcar", "remover consulta", "cancelo"})
       THEN "cancelamento"
       ELSE IF algum_em(mensagem_lower,
                        {"meus agendamentos", "minhas consultas",
                         "consultar agendamento", "ver consultas"})
       THEN "consulta"
       ELSE IF algum_em(mensagem_lower,
                        {"telefone", "endereço", "onde fica",
                         "horário funcionamento", "localização"})
       THEN "informacao"
       ELSE IF algum_em(mensagem_lower,
                        {"clima", "tempo", "futebol", "política",
                         "receita culinária"})
       THEN "fora_escopo"
       ELSE ""

\* the messages users send
Mensagens == {"oi", "cancelar", "cancelar 11111111111", "11111111111",
              "22222222222", "Contagem", "Cardiologia", "Ortopedia", "1",
              "sim", "nao", "Heloisa"}

\* the messages of a registration: an ID no patient has, a name, dates,
\* telephone numbers, an e-mail address, card numbers and the words that
\* skip a step, some of them malformed
MensagensCadastro == {"22222222222", "Bruno Reis", "15/03/1990",
                      "31/02/1990", "3133334444", "12345", "b@x.io",
                      "pular", "particular", "ABC123"}

\* messages for the classifier: keywords of one list, of several, of none
MensagensClassificador ==
    {"cancelar", "ver consultas", "telefone", "clima",
     "cancelar telefone", "desmarcar minhas consultas e o clima",
     "ver consultas telefone", "meus agendamentos futebol",
     "telefone tempo", "Onde Fica o Clima", "preciso de um medico",
     "quero marcar"}

\* messages sent while the bot asks for the attachment
MensagensAnexo == {"11111111111", "Contagem", "Ortopedia", "1", "link",
                   "anexo", "upload", "enviei", "sem anexo", "talvez",
                   "sim", "nao", "nao sei"}

\* messages sent to cancel or to look up appointments
MensagensCancelamento == {"cancelar", "11111111111", "0", "1", "2", "3",
                          "+1", "-1", "o segundo", "ver consultas"}

TodasAsMensagens ==
    Mensagens \cup MensagensCadastro \cup MensagensClassificador
        \cup MensagensAnexo \cup MensagensCancelamento

\* the keyword tests of each message, evaluated once per message
palavras_chave ==
    [m \in TodasAsMensagens |-> [saudacao |-> eh_saudacao(m),
                                 cancelamento |-> eh_cancelamento(m),
                                 tipo |-> tipo_por_palavras(m)]]

\* resultado = response.text.strip().lower(), evaluated once per text
resultado_ia == [t \in TextosIA |-> lower(strip(t))]

\* a classifier that hands on whatever the remote classifier answered
detectar_tipo_sem_validacao(mensagem, ia) ==
    IF palavras_chave[mensagem].tipo # "" THEN palavras_chave[mensagem].tipo
    ELSE IF ia = "falha" \/ ia = "" THEN "agendamento"
    ELSE resultado_ia[ia]

\* _detectar_tipo_mensagem: the keyword rules, then the remote classifier,
\* whose answer counts when it is one of the five labels once stripped and
\* lower-cased (an empty text counts as agendamento), then, when the call
\* raises, the heuristic that settles on agendamento
detectar_tipo_mensagem(mensagem, ia) ==
    IF palavras_chave[mensagem].tipo # "" THEN palavras_chave[mensagem].tipo
    ELSE IF ia = "falha" \/ ia = "" THEN "agendamento"
    ELSE IF resultado_ia[ia] \in Rotulos THEN resultado_ia[ia]
    ELSE "agendamento"

\* the parts of s between occurrences of the one-character separator sep
RECURSIVE dividir(_, _, _)
dividir(s, sep, parte) ==
    IF Len(s) = 0 THEN <<parte>>
    ELSE IF Ch(s, 1) = sep
    THEN <<parte>> \o dividir(SubSeq(s, 2, Len(s)), sep, "")
    ELSE dividir(SubSeq(s, 2, Len(s)), sep, parte \o Ch(s, 1))

\* datetime.strptime(data_str, '%d<sep>%m<sep>%Y').date(), then the range
\* test of _validar_data_nascimento; << >> stands for ValueError / None
data_no_formato(data_str, sep, hj) ==
    LET partes == dividir(data_str, sep, "")
    IN IF /\ Len(partes) = 3
          /\ todo_digitos(partes[1]) /\ Len(partes[1]) <= 2
          /\ todo_digitos(partes[2]) /\ Len(partes[2]) <= 2
          /\ todo_digitos(partes[3]) /\ Len(partes[3]) = 4
       THEN LET d == para_int(partes[1])
                m == para_int(partes[2])
                a == para_int(partes[3])
                h == data_de(hj)
            IN IF /\ a >= 1 /\ m >= 1 /\ m <= 12
                  /\ d >= 1 /\ d <= DiasNoMes(m, a)
                  /\ a >= 1900
                  /\ \/ a < h.ano
                     \/ a = h.ano /\ m < h.mes
                     \/ a = h.ano /\ m = h.mes /\ d <= h.dia
               THEN <<a, m, d>>
               ELSE << >>
       ELSE << >>

\* _validar_data_nascimento
validar_data_nascimento(data_str, hj) ==
    IF data_no_formato(data_str, "/", hj) # << >>
    THEN data_no_formato(data_str, "/", hj)
    ELSE IF data_no_formato(data_str, "-", hj) # << >>
    THEN data_no_formato(data_str, "-", hj)
    ELSE data_no_formato(data_str, ".", hj)

Letras == {"a", "b", "c", "d", "e", "f", "g", "h", "i", "j", "k", "l", "m",
           "n", "o", "p", "q", "r", "s", "t", "u", "v", "w", "x", "y", "z"}

Maiusculas == {"A", "B", "C", "D", "E", "F", "G", "H", "I", "J", "K", "L",
               "M", "N", "O", "P", "Q", "R", "S", "T", "U", "V", "W", "X",
               "Y", "Z"}

Alfanumericos == Letras \cup Maiusculas \cup Digitos

\* the longest run of characters of S that starts at position i
RECURSIVE fim_da_sequencia(_, _, _)
fim_da_sequencia(s, i, S) ==
    IF i <= Len(s) /\ Ch(s, i) \in S THEN fim_da_sequencia(s, i + 1, S)
    ELSE i - 1

\* the longest run of characters of S that ends at position i
RECURSIVE inicio_da_sequencia(_, _, _)
inicio_da_sequencia(s, i, S) ==
    IF i >= 1 /\ Ch(s, i) \in S THEN inicio_da_sequencia(s, i - 1, S)
    ELSE i + 1

\* _extrair_email: the first match of
\*   \b[A-Za-z0-9._%+-]+@[A-Za-z0-9.-]+\.[A-Z|a-z]{2,}\b
\* around the first "@" that has one; "" stands for None
extrair_email(mensagem) ==
    LET Local == Alfanumericos \cup {".", "_", "%", "+", "-"}
        Dominio == Alfanumericos \cup {".", "-"}
        Final == Letras \cup Maiusculas \cup {"|"}
        casa(p) ==
            LET ini == inicio_da_sequencia(mensagem, p - 1, Local)
                fim == fim_da_sequencia(mensagem, p + 1, Dominio)
                pontos == { q \in (p + 2)..(fim - 2) :
                              /\ Ch(mensagem, q) = "."
                              /\ fim_da_sequencia(mensagem, q + 1, Final)
                                   >= q + 2 }
            IN IF ini <= p - 1 /\ pontos # {}
               THEN LET q == CHOOSE r \in pontos : \A r2 \in pontos : r2 <= r
                    IN SubSeq(mensagem, ini,
                              fim_da_sequencia(mensagem, q + 1, Final))
               ELSE ""
        arrobas == { p \in 1..Len(mensagem) :
                       Ch(mensagem, p) = "@" /\ casa(p) # "" }
    IN IF arrobas = {} THEN ""
       ELSE casa(CHOOSE p \in arrobas : \A p2 \in arrobas : p <= p2)

\* ''.join(c for c in mensagem if c.isalnum())
RECURSIVE so_alfanumericos(_)
so_alfanumericos(s) ==
    IF Len(s) = 0 THEN ""
    ELSE (IF Ch(s, 1) \in Alfanumericos THEN Ch(s, 1) ELSE "")
         \o so_alfanumericos(SubSeq(s, 2, Len(s)))

-----------------------------------------------------------------------------
(* Dialogue state machine: ChatbotService.processar_mensagem and the      *)
(* handlers it dispatches to.  A Conversa is a record [estado, dados,     *)
(* paciente_id]; a handler maps it and the tables to a Retorno.           *)

\* Paciente.find_by_cpf: the id of the row, or NULO
find_by_cpf(pacs, cpf) ==
    IF \E i \in 1..Len(pacs) : pacs[i].cpf = cpf
    THEN CHOOSE i \in 1..Len(pacs) :
            /\ pacs[i].cpf = cpf
            /\ \A j \in 1..Len(pacs) : pacs[j].cpf = cpf => i <= j
    ELSE NULO

\* the ids of the rows of a table that satisfy a test (aceitos is the set of
\* the ids that satisfy it), in id order
RECURSIVE ids_onde(_, _, _)
ids_onde(tabela, aceitos, i) ==
    IF i > Len(tabela) THEN << >>
    ELSE (IF i \in aceitos THEN <<i>> ELSE << >>)
         \o ids_onde(tabela, aceitos, i + 1)

\* a cancellation list of the scheduled appointments of every patient
processar_cancelamento_de_todos(c, paciente_id, pacs, ags) ==
    LET lista == ids_onde(ags,
                        {i \in 1..Len(ags) : ags[i].status = "agendado"}, 1)
    IN IF lista = << >>
       THEN Retorno(c, pacs, ags,
                    Resposta(FALSE, "sem_agendamentos_ativos", "texto",
                             "inicio"))
       ELSE Retorno([c EXCEPT !.dados =
                        [agendamentos_para_cancelar |-> lista]],
                    pacs, ags,
                    [Resposta(TRUE, "escolha_cancelamento", "cancelamento",
                              "cancelamento")
                       EXCEPT !.agendamentos = lista])

\* _processar_cancelamento_cpf_valido
processar_cancelamento_cpf_valido(c, paciente_id, pacs, ags) ==
    LET ativo(a) == a.paciente_id = paciente_id /\ a.status = "agendado"
        lista == ids_onde(ags,
                        {i \in 1..Len(ags) : ativo(ags[i])}, 1)
    IN IF lista = << >>
       THEN Retorno(c, pacs, ags,
                    Resposta(FALSE, "sem_agendamentos_ativos", "texto",
                             "inicio"))
       ELSE Retorno([c EXCEPT !.dados =
                        [agendamentos_para_cancelar |-> lista]],
                    pacs, ags,
                    [Resposta(TRUE, "escolha_cancelamento", "cancelamento",
                              "cancelamento")
                       EXCEPT !.agendamentos = lista])

\* _processar_consulta_agendamentos_cpf_valido
processar_consulta_agendamentos_cpf_valido(c, paciente_id, pacs, ags) ==
    LET do_paciente(a) == a.paciente_id = paciente_id
        lista == ids_onde(ags,
                        {i \in 1..Len(ags) : do_paciente(ags[i])}, 1)
    IN IF lista = << >>
       THEN Retorno(c, pacs, ags,
                    Resposta(TRUE, "sem_agendamentos", "texto", "inicio"))
       ELSE Retorno([c EXCEPT !.estado = "finalizado", !.dados = Vazio],
                    pacs, ags,
                    [Resposta(TRUE, "seus_agendamentos", "consulta",
                              "inicio")
                       EXCEPT !.agendamentos = lista])

\* conversa.estado in ['cancelamento', 'consulta_agendamentos']
fluxo_sem_cadastro(estado) ==
    estado \in {"cancelamento", "consulta_agendamentos"}

\* _processar_cpf
processar_cpf(mensagem, c, pacs, ags) ==
    LET cpf == extrair_cpf(mensagem)
        paciente_id == find_by_cpf(pacs, cpf)
        dados_temp == c.dados
        acao_desejada == get(dados_temp, "acao_desejada", "agendar")
        mensagem_anterior == lower(get(dados_temp, "mensagem_inicial", ""))
    IN IF cpf = ""
       THEN Retorno(c, pacs, ags,
                    Resposta(FALSE, "cpf_invalido", "texto",
                             "aguardando_cpf"))
       ELSE IF paciente_id # NULO
       THEN LET c1 == [c EXCEPT !.paciente_id = paciente_id,
                                !.dados = [cpf |-> cpf,
                                           paciente_id |-> paciente_id,
                                           acao_desejada |-> acao_desejada]]
            IN IF contem(mensagem_anterior, "cancelar")
                  \/ c1.estado = "cancelamento"
               THEN processar_cancelamento_cpf_valido(c1, paciente_id, pacs,
                                                      ags)
               ELSE IF contem(mensagem_anterior, "consultar")
                       \/ c1.estado = "consulta_agendamentos"
               THEN processar_consulta_agendamentos_cpf_valido(
                        c1, paciente_id, pacs, ags)
               ELSE Retorno([c1 EXCEPT !.estado = "local"], pacs, ags,
                            Resposta(TRUE, "escolha_local", "locais",
                                     "local"))
       ELSE IF fluxo_sem_cadastro(c.estado)
       THEN Retorno(c, pacs, ags,
                    Resposta(FALSE, "cpf_nao_encontrado", "texto", "inicio"))
       ELSE Retorno([c EXCEPT !.estado = "cadastro",
                              !.dados = [cpf |-> cpf,
                                         etapa_cadastro |-> "nome"]],
                    pacs, ags,
                    Resposta(TRUE, "pedir_nome", "texto", "cadastro"))

\* int(s): an optional sign and decimal digits, blanks around them
\* ignored; << >> stands for ValueError
para_int_py(s) ==
    LET t == strip(s)
        corpo == IF Len(t) > 0 /\ Ch(t, 1) \in {"+", "-"}
                 THEN SubSeq(t, 2, Len(t)) ELSE t
    IN IF todo_digitos(corpo)
       THEN <<IF Len(t) > 0 /\ Ch(t, 1) = "-" THEN 0 - para_int(corpo)
              ELSE para_int(corpo)>>
       ELSE << >>

\* an Agendamento.cancelar that cancels the row with the number typed
cancelar_pelo_numero(ags, id, motivo, hj, ag) ==
    LET n == IF id > 1 THEN id - 1 ELSE id
    IN [ags EXCEPT ![n].status = "cancelado",
                   ![n].cancelado_em = timestamp(hj, ag),
                   ![n].motivo_cancelamento = motivo]

\* Agendamento.cancelar
cancelar(ags, id, motivo, hj, ag) ==
    [ags EXCEPT ![id].status = "cancelado",
                ![id].cancelado_em = timestamp(hj, ag),
                ![id].motivo_cancelamento = motivo]

\* _processar_cancelamento
processar_cancelamento(mensagem, c, pacs, ags, hj, ag) ==
    IF tem(c.dados, "agendamentos_para_cancelar")
    THEN LET numero == para_int_py(mensagem)
             agendamentos_ids == c.dados["agendamentos_para_cancelar"]
         IN IF numero = << >>
            THEN Retorno(c, pacs, ags,
                         Resposta(FALSE, "digite_apenas_numero",
                                  "cancelamento", "cancelamento"))
            ELSE IF 1 <= numero[1] /\ numero[1] <= Len(agendamentos_ids)
            THEN LET agendamento_id == agendamentos_ids[numero[1]]
                 IN IF existe(ags, agendamento_id)
                       /\ ags[agendamento_id].status = "agendado"
                    THEN Retorno([c EXCEPT !.estado = "finalizado",
                                           !.dados = Vazio],
                                 pacs,
                                 cancelar(ags, agendamento_id,
                                          "Cancelado pelo paciente via chatbot",
                                          hj, ag),
                                 Resposta(TRUE, "agendamento_cancelado",
                                          "sucesso", "finalizado"))
                    ELSE Retorno(c, pacs, ags,
                                 Resposta(FALSE, "agendamento_nao_encontrado",
                                          "cancelamento", "cancelamento"))
            ELSE Retorno(c, pacs, ags,
                         Resposta(FALSE, "numero_invalido", "cancelamento",
                                  "cancelamento"))
    ELSE processar_cpf(mensagem, c, pacs, ags)

\* a start handler that asks for the ID after an information reply
processar_inicio_informacao_pede_cpf(mensagem, c, pacs, ags, ia) ==
    LET tipo == detectar_tipo_mensagem(mensagem, ia)
    IN IF tipo = "cancelamento"
       THEN Retorno([c EXCEPT !.estado = "cancelamento"], pacs, ags,
                    Resposta(TRUE, "pedir_cpf_cancelamento", "texto",
                             "cancelamento"))
       ELSE IF tipo = "consulta"
       THEN Retorno([c EXCEPT !.estado = "consulta_agendamentos"], pacs, ags,
                    Resposta(TRUE, "pedir_cpf_consulta", "texto",
                             "consulta_agendamentos"))
       ELSE IF tipo = "informacao"
       THEN Retorno([c EXCEPT !.estado = "aguardando_cpf"], pacs, ags,
                    Resposta(TRUE, "informacoes", "info", "inicio"))
       ELSE IF tipo = "fora_escopo"
       THEN Retorno(c, pacs, ags,
                    Resposta(TRUE, "fora_do_escopo", "orientacao", "inicio"))
       ELSE Retorno([c EXCEPT !.estado = "aguardando_cpf"], pacs, ags,
                    Resposta(TRUE, "pedir_cpf_agendamento", "texto",
                             "aguardando_cpf"))

\* _processar_inicio
processar_inicio(mensagem, c, pacs, ags, ia) ==
    LET tipo == detectar_tipo_mensagem(mensagem, ia)
    IN IF tipo = "cancelamento"
       THEN Retorno([c EXCEPT !.estado = "cancelamento"], pacs, ags,
                    Resposta(TRUE, "pedir_cpf_cancelamento", "texto",
                             "cancelamento"))
       ELSE IF tipo = "consulta"
       THEN Retorno([c EXCEPT !.estado = "consulta_agendamentos"], pacs, ags,
                    Resposta(TRUE, "pedir_cpf_consulta", "texto",
                             "consulta_agendamentos"))
       ELSE IF tipo = "informacao"
       THEN Retorno(c, pacs, ags,
                    Resposta(TRUE, "informacoes", "info", "inicio"))
       ELSE IF tipo = "fora_escopo"
       THEN Retorno(c, pacs, ags,
                    Resposta(TRUE, "fora_do_escopo", "orientacao", "inicio"))
       ELSE Retorno([c EXCEPT !.estado = "aguardando_cpf"], pacs, ags,
                    Resposta(TRUE, "pedir_cpf_agendamento", "texto",
                             "aguardando_cpf"))

\* a row that loses the ID of the draft
novo_paciente_sem_cpf(dados) ==
    [cpf |-> "", nome |-> dados["nome"],
     data_nascimento |-> get(dados, "data_nascimento", << >>),
     telefone |-> dados["telefone"],
     email |-> get(dados, "email", ""),
     carteirinha |-> get(dados, "carteirinha", ""),
     tipo_atendimento |-> get(dados, "tipo_atendimento", "particular")]

\* the row Paciente.create inserts
novo_paciente(dados) ==
    [cpf |-> dados["cpf"], nome |-> dados["nome"],
     data_nascimento |-> get(dados, "data_nascimento", << >>),
     telefone |-> dados["telefone"],
     email |-> get(dados, "email", ""),
     carteirinha |-> get(dados, "carteirinha", ""),
     tipo_atendimento |-> get(dados, "tipo_atendimento", "particular")]

\* a pacientes table without the UNIQUE constraint on cpf
Paciente_create_sem_unique(pacs, dados, falha_bd) ==
    IF falha_bd
    THEN << >>
    ELSE Append(pacs, novo_paciente(dados))

\* Paciente.create: INSERT INTO pacientes; cpf is UNIQUE.  << >> stands for
\* the exception the call raises, the IntegrityError or the error of a
\* database that does not take the INSERT (falha_bd)
Paciente_create(pacs, dados, falha_bd) ==
    IF falha_bd \/ find_by_cpf(pacs, dados["cpf"]) # NULO
    THEN << >>
    ELSE Append(pacs, novo_paciente(dados))

\* _processar_cadastro
processar_cadastro(mensagem, c, dados, pacs, ags, hj, falha_bd) ==
    LET etapa == get(dados, "etapa_cadastro", "nome")
        mensagem_lower == lower(strip(mensagem))
    IN IF etapa = "nome"
       THEN Retorno([c EXCEPT !.dados =
                        put(put(dados, "nome", strip(mensagem)),
                            "etapa_cadastro", "data_nascimento")],
                    pacs, ags,
                    Resposta(TRUE, "pedir_data_nascimento", "texto",
                             "cadastro"))
       ELSE IF etapa = "data_nascimento"
       THEN LET data_nascimento ==
                    validar_data_nascimento(strip(mensagem), hj)
            IN IF data_nascimento = << >>
               THEN Retorno(c, pacs, ags,
                            Resposta(FALSE, "data_invalida", "texto",
                                     "cadastro"))
               ELSE Retorno([c EXCEPT !.dados =
                                put(put(dados, "data_nascimento",
                                        data_nascimento),
                                    "etapa_cadastro", "telefone")],
                            pacs, ags,
                            Resposta(TRUE, "pedir_telefone", "texto",
                                     "cadastro"))
       ELSE IF etapa = "telefone"
       THEN LET telefone == extrair_telefone(mensagem)
            IN IF telefone = ""
               THEN Retorno(c, pacs, ags,
                            Resposta(FALSE, "telefone_invalido", "texto",
                                     "cadastro"))
               ELSE Retorno([c EXCEPT !.dados =
                                put(put(dados, "telefone", telefone),
                                    "etapa_cadastro", "email")],
                            pacs, ags,
                            Resposta(TRUE, "pedir_email", "texto",
                                     "cadastro"))
       ELSE IF etapa = "email"
       THEN LET pulou == mensagem_lower \in {"pular", "não", "nao"}
                email == IF pulou THEN "" ELSE extrair_email(mensagem)
            IN IF ~pulou /\ email = ""
               THEN Retorno(c, pacs, ags,
                            Resposta(FALSE, "email_invalido", "texto",
                                     "cadastro"))
               ELSE Retorno([c EXCEPT !.dados =
                                put(put(dados, "email", email),
                                    "etapa_cadastro", "carteirinha")],
                            pacs, ags,
                            Resposta(TRUE, "pedir_carteirinha", "texto",
                                     "cadastro"))
       ELSE IF etapa = "carteirinha"
       THEN LET sem_plano == mensagem_lower \in
                    {"particular", "nao", "não", "sem plano", "pular"}
                carteirinha_limpa == so_alfanumericos(mensagem)
                dados2 ==
                    IF sem_plano
                    THEN put(put(dados, "carteirinha", ""),
                             "tipo_atendimento", "particular")
                    ELSE put(put(dados, "carteirinha",
                                 primeiros(carteirinha_limpa, 50)),
                             "tipo_atendimento", "plano")
            IN IF ~sem_plano /\ Len(carteirinha_limpa) < 6
               THEN Retorno(c, pacs, ags,
                            Resposta(FALSE, "carteirinha_invalida", "texto",
                                     "cadastro"))
               ELSE IF Paciente_create(pacs, dados2, falha_bd) = << >>
               THEN Excecao(c, pacs, ags)
               ELSE LET pacs2 == Paciente_create(pacs, dados2, falha_bd)
                        id == Len(pacs2)
                    IN Retorno([c EXCEPT !.paciente_id = id,
                                         !.estado = "local",
                                         !.dados = put(dados2, "paciente_id",
                                                       id)],
                               pacs2, ags,
                               Resposta(TRUE, "cadastro_realizado", "locais",
                                        "local"))
       ELSE Retorno(c, pacs, ags,
                    Resposta(FALSE, "sem_resposta", "erro", c.estado))

\* Local.find_active: the first active location whose name or city
\* contains the message or is contained in it; NULO when none is
local_escolhido(mensagem) ==
    LET mensagem_lower == strip(lower(mensagem))
        casa(l) == /\ l.ativo
                   /\ \/ contem(mensagem_lower, lower(l.nome))
                      \/ (l.cidade # ""
                          /\ contem(mensagem_lower, lower(l.cidade)))
                      \/ contem(lower(l.nome), mensagem_lower)
                      \/ (l.cidade # ""
                          /\ contem(lower(l.cidade), mensagem_lower))
        ids == ids_onde(Locais,
                        {i \in 1..Len(Locais) : casa(Locais[i])}, 1)
    IN IF ids = << >> THEN NULO ELSE ids[1]

\* _processar_local
processar_local(mensagem, c, pacs, ags) ==
    LET id == local_escolhido(mensagem)
    IN IF id # NULO
       THEN Retorno([c EXCEPT !.dados =
                        put(put(c.dados, "local_id", id),
                            "local_nome", Locais[id].nome),
                              !.estado = "especialidade"],
                    pacs, ags,
                    Resposta(TRUE, "escolha_especialidade", "especialidades",
                             "especialidade"))
       ELSE Retorno(c, pacs, ags,
                    Resposta(FALSE, "local_nao_identificado", "locais",
                             "local"))

\* SELECT DISTINCT e.* FROM especialidades e JOIN medicos m ... JOIN
\*   horarios_disponiveis h ... WHERE h.local_id = ? AND all three active;
\* without a location, Especialidade.find_active
especialidades_do_local(meds, hd, local_id) ==
    LET no_local(e, id) ==
            \E i \in 1..Len(hd) :
                /\ hd[i].local_id = local_id /\ hd[i].ativo
                /\ existe(meds, hd[i].medico_id)
                /\ meds[hd[i].medico_id].ativo
                /\ meds[hd[i].medico_id].especialidade_id = id
    IN { id \in IdsDe(Especialidades) :
           /\ Especialidades[id].ativo
           /\ (local_id # NULO => no_local(Especialidades[id], id)) }

\* the least id of a non-empty set of ids, NULO for the empty set
primeiro_id(ids) ==
    IF ids = {} THEN NULO ELSE CHOOSE i \in ids : \A j \in ids : i <= j

mapeamento_sintomas == <<
    <<"coração", "Cardiologia">>, <<"pele", "Dermatologia">>,
    <<"criança", "Pediatria">>, <<"neuro", "NeuroPediatra">>,
    <<"neurologia", "NeuroPediatra">>, <<"neurologista", "NeuroPediatra">>,
    <<"neuropediatra", "NeuroPediatra">>, <<"pediatra", "NeuroPediatra">>,
    <<"avaliação", "Avaliação - terapia">>,
    <<"terapia", "Avaliação - terapia">>,
    <<"avaliacao", "Avaliação - terapia">>, <<"mulher", "Ginecologia">>,
    <<"osso", "Ortopedia">>, <<"mental", "Psiquiatria">>,
    <<"olho", "Oftalmologia">> >>

\* the specialty a message names, by name and then by symptom keyword
especialidade_escolhida(mensagem, especialidades) ==
    LET mensagem_lower == strip(lower(mensagem))
        pelo_nome ==
            { id \in especialidades :
                \/ contem(mensagem_lower, lower(Especialidades[id].nome))
                \/ contem(lower(Especialidades[id].nome), mensagem_lower) }
        da_palavra(k) ==
            IF contem(mensagem_lower, mapeamento_sintomas[k][1])
            THEN primeiro_id({ id \in especialidades :
                     contem(lower(Especialidades[id].nome),
                            lower(mapeamento_sintomas[k][2])) })
            ELSE NULO
        palavras == { k \in 1..Len(mapeamento_sintomas) :
                        da_palavra(k) # NULO }
    IN IF pelo_nome # {} THEN primeiro_id(pelo_nome)
       ELSE IF palavras # {} THEN da_palavra(primeiro_id(palavras))
       ELSE NULO

\* the leftmost match of (\d{1,2})<sep>(\d{1,2}) in s, as the two numbers;
\* << >> when the pattern does not occur.  With segundo_opcional the
\* second group is (\d{2})? and counts as 0 when absent; with
\* segundo_exato it is (\d{2})
busca_par(s, sep, segundo_opcional, segundo_exato) ==
    LET n == Len(sep)
        sep_em(i) == i + n - 1 <= Len(s) /\ SubSeq(s, i, i + n - 1) = sep
        segundo(j) ==
            IF eh_digito(s, j) /\ eh_digito(s, j + 1)
            THEN <<para_int(SubSeq(s, j, j + 1))>>
            ELSE IF eh_digito(s, j) /\ ~segundo_opcional /\ ~segundo_exato
            THEN <<para_int(Ch(s, j))>>
            ELSE IF segundo_opcional THEN <<0>>
            ELSE << >>
        em(i) ==
            IF eh_digito(s, i) /\ eh_digito(s, i + 1) /\ sep_em(i + 2)
               /\ segundo(i + 2 + n) # << >>
            THEN <<para_int(SubSeq(s, i, i + 1)), segundo(i + 2 + n)[1]>>
            ELSE IF eh_digito(s, i) /\ sep_em(i + 1)
                    /\ segundo(i + 1 + n) # << >>
            THEN <<para_int(Ch(s, i)), segundo(i + 1 + n)[1]>>
            ELSE << >>
        posicoes == { i \in 1..Len(s) : em(i) # << >> }
    IN IF posicoes = {} THEN << >> ELSE em(primeiro_id(posicoes))

\* the (day, month) the data_patterns find in a message
data_encontrada(mensagem) ==
    IF busca_par(mensagem, "/", FALSE, FALSE) # << >>
    THEN busca_par(mensagem, "/", FALSE, FALSE)
    ELSE IF busca_par(mensagem, "-", FALSE, FALSE) # << >>
    THEN busca_par(mensagem, "-", FALSE, FALSE)
    ELSE busca_par(mensagem, ".", FALSE, FALSE)

\* the (hour, minute) the hora_patterns find in a message
hora_encontrada(mensagem) ==
    IF busca_par(mensagem, ":", FALSE, TRUE) # << >>
    THEN busca_par(mensagem, ":", FALSE, TRUE)
    ELSE IF busca_par(mensagem, "h", TRUE, FALSE) # << >>
    THEN busca_par(mensagem, "h", TRUE, FALSE)
    ELSE IF busca_par(mensagem, " hora", TRUE, FALSE) # << >>
    THEN <<busca_par(mensagem, " hora", TRUE, FALSE)[1], 0>>
    ELSE << >>

\* a loop over the candidates that looks at the date only
primeiro_horario_da_data(horarios_disponiveis, data, hora) ==
    LET casa(h) ==
            \/ data = << >>
            \/ /\ data[1] = data_de(h.data).dia
               /\ data[2] = data_de(h.data).mes
        ids == ids_onde(horarios_disponiveis,
                        {i \in 1..Len(horarios_disponiveis) :
                            casa(horarios_disponiveis[i])}, 1)
    IN IF ids = << >> THEN NULO ELSE ids[1]

\* _interpretar_escolha_horario, the loop over the candidates: the index of
\* the first one that matches the date and the time found in the message
\* (<< >> for a part that was not found), NULO when none matches
primeiro_horario_que_casa(horarios_disponiveis, data, hora) ==
    LET casa(h) ==
            /\ \/ data = << >>
               \/ /\ data[1] = data_de(h.data).dia
                  /\ data[2] = data_de(h.data).mes
            /\ \/ hora = << >>
               \/ /\ hora[1] = h.hora \div 60
                  /\ hora[2] = h.hora % 60
        ids == ids_onde(horarios_disponiveis,
                        {i \in 1..Len(horarios_disponiveis) :
                            casa(horarios_disponiveis[i])}, 1)
    IN IF ids = << >> THEN NULO ELSE ids[1]

\* a choice interpreter that goes on to match date and time when the number
\* is outside the list
interpretar_escolha_sem_retorno(mensagem, horarios_disponiveis) ==
    LET mensagem_clean == strip(mensagem)
    IN IF /\ todo_digitos(mensagem_clean)
          /\ 0 <= para_int(mensagem_clean) - 1
          /\ para_int(mensagem_clean) - 1 < Len(horarios_disponiveis)
       THEN para_int(mensagem_clean)
       ELSE primeiro_horario_que_casa(horarios_disponiveis,
                                      data_encontrada(mensagem),
                                      hora_encontrada(mensagem))

\* _interpretar_escolha_horario: the index of the chosen candidate in the
\* list, NULO for None
interpretar_escolha_horario(mensagem, horarios_disponiveis) ==
    LET mensagem_clean == strip(mensagem)
    IN IF todo_digitos(mensagem_clean)
       THEN (IF /\ 0 <= para_int(mensagem_clean) - 1
                /\ para_int(mensagem_clean) - 1 < Len(horarios_disponiveis)
             THEN para_int(mensagem_clean)
             ELSE NULO)
       ELSE primeiro_horario_que_casa(horarios_disponiveis,
                                      data_encontrada(mensagem),
                                      hora_encontrada(mensagem))

\* an INSERT that writes the first patient of the table as the owner
Agendamento_create_do_primeiro(ags, paciente_id, medico_id, especialidade_id, local_id, data, hora, status, anexo_nome, falha_bd) ==
    IF \/ falha_bd
       \/ paciente_id = NULO \/ medico_id = NULO \/ especialidade_id = NULO
       \/ local_id = NULO \/ data = NULO \/ hora = NULO
    THEN << >>
    ELSE Append(ags, [paciente_id |-> 1, medico_id |-> medico_id,
                      especialidade_id |-> especialidade_id,
                      local_id |-> local_id, data |-> data, hora |-> hora,
                      status |-> status, anexo_nome |-> anexo_nome,
                      motivo_cancelamento |-> "", cancelado_em |-> NULO])

\* Agendamento.create: INSERT INTO agendamentos.  The four references and
\* data and hora are NOT NULL; << >> stands for the exception the call
\* raises, the IntegrityError or the error of a database that does not
\* take the INSERT (falha_bd)
Agendamento_create(ags, paciente_id, medico_id, especialidade_id, local_id, data, hora, status, anexo_nome, falha_bd) ==
    IF \/ falha_bd
       \/ paciente_id = NULO \/ medico_id = NULO \/ especialidade_id = NULO
       \/ local_id = NULO \/ data = NULO \/ hora = NULO
    THEN << >>
    ELSE Append(ags, [paciente_id |-> paciente_id, medico_id |-> medico_id,
                      especialidade_id |-> especialidade_id,
                      local_id |-> local_id, data |-> data, hora |-> hora,
                      status |-> status, anexo_nome |-> anexo_nome,
                      motivo_cancelamento |-> "", cancelado_em |-> NULO])

\* a placeholder that is written as a scheduled appointment
status_temporario_agendado == "agendado"

\* status='pendente_anexo'
status_temporario == "pendente_anexo"

\* an update that leaves the time of the chosen candidate out
dados_da_escolha_sem_hora(dados, escolha) ==
    put(put(put(dados, "medico_id", escolha.medico_id),
            "medico_nome", escolha.medico_nome),
        "data_agendamento", escolha.data)

\* dados.update({...}) with the chosen candidate
dados_da_escolha(dados, escolha) ==
    LET d1 == put(dados, "medico_id", escolha.medico_id)
        d2 == put(d1, "medico_nome", escolha.medico_nome)
        d3 == put(d2, "especialidade_nome",
                  get(dados, "especialidade_nome", "Especialidade"))
        d4 == put(d3, "data_agendamento", escolha.data)
        d5 == put(d4, "hora_agendamento", escolha.hora)
        d6 == put(d5, "data_formatada", data_de(escolha.data))
    IN put(d6, "hora_formatada", <<escolha.hora \div 60, escolha.hora % 60>>)

\* _processar_horarios, after the candidates were generated and the message
\* was interpreted: indice is the chosen candidate (NULO for none)
escolher_horario(c, dados, pacs, ags, especialidade_id, horarios_disponiveis, indice, falha_bd) ==
    LET gerado(r) == [r EXCEPT !.gerou = TRUE,
                               !.horarios = horarios_disponiveis]
        escolhido(r) == [gerado(r) EXCEPT
                            !.escolha = <<horarios_disponiveis[indice]>>]
    IN IF indice # NULO
       THEN LET escolha == horarios_disponiveis[indice]
                dados2 == dados_da_escolha(dados, escolha)
                c2 == [c EXCEPT !.dados = dados2]
            IN IF existe(Especialidades, especialidade_id)
                  /\ Especialidades[especialidade_id].requer_anexo
               THEN LET ags2 == Agendamento_create(
                                    ags, c.paciente_id, escolha.medico_id,
                                    especialidade_id, escolha.local_id,
                                    escolha.data, escolha.hora,
                                    status_temporario, "", falha_bd)
                    IN IF ags2 = << >>
                       THEN escolhido(Excecao(c2, pacs, ags))
                       ELSE escolhido(Retorno(
                                [c2 EXCEPT !.dados =
                                     put(dados2, "agendamento_temp_id",
                                         Len(ags2)),
                                           !.estado = "solicitacao_anexo"],
                                pacs, ags2,
                                [Resposta(TRUE, "pedido_medico_obrigatorio",
                                          "solicitacao_anexo",
                                          "solicitacao_anexo")
                                   EXCEPT !.agendamento_id = Len(ags2)]))
               ELSE escolhido(Retorno([c2 EXCEPT !.estado = "confirmacao"],
                                   pacs, ags,
                                   Resposta(TRUE, "resumo_do_agendamento",
                                            "confirmacao", "confirmacao")))
       ELSE gerado(Retorno(c, pacs, ags,
                           [Resposta(TRUE, "digite_data_e_horario",
                                     "horarios", "horarios")
                              EXCEPT !.horarios = horarios_disponiveis]))

\* _processar_horarios, once the doctors of the specialty at the location
\* were found: the candidates are generated, shown or chosen from
oferecer_horarios(mensagem, c, dados, pacs, ags, especialidade_id, horarios_disponiveis, falha_bd) ==
    LET gerado(r) == [r EXCEPT !.gerou = TRUE,
                               !.horarios = horarios_disponiveis]
    IN IF horarios_disponiveis = << >>
       THEN gerado(Retorno(c, pacs, ags,
                           Resposta(FALSE, "sem_horarios_proximos_dias",
                                    "especialidades", "especialidade")))
       ELSE IF strip(mensagem) = ""
       THEN gerado(Retorno(c, pacs, ags,
                           [Resposta(TRUE, "horarios_disponiveis",
                                     "horarios", "horarios")
                              EXCEPT !.horarios = horarios_disponiveis]))
       ELSE escolher_horario(c, dados, pacs, ags, especialidade_id,
                             horarios_disponiveis,
                             interpretar_escolha_horario(
                                 mensagem, horarios_disponiveis),
                             falha_bd)

\* _processar_horarios
processar_horarios(mensagem, c, dados, pacs, ags, meds, hd, hj, ag, falha_bd) ==
    LET local_id == get(dados, "local_id", NULO)
        especialidade_id == get(dados, "especialidade_id", NULO)
        rows == consulta_medicos_horarios(meds, hd, especialidade_id,
                                          local_id, 1)
    IN IF local_id = NULO \/ especialidade_id = NULO
       THEN Retorno([c EXCEPT !.estado = "inicio", !.dados = Vazio],
                    pacs, ags, resposta_erro("erro_nos_dados"))
       ELSE IF rows = << >>
       THEN Retorno(c, pacs, ags,
                    Resposta(FALSE, "sem_medicos_ou_horarios",
                             "especialidades", "especialidade"))
       ELSE oferecer_horarios(mensagem, c, dados, pacs, ags,
                              especialidade_id,
                              gerar_horarios_disponiveis(rows, meds, ags, hj,
                                                         ag, "nenhuma"),
                              falha_bd)

\* _processar_especialidade
processar_especialidade(mensagem, c, pacs, ags, meds, hd, hj, ag, falha_bd) ==
    LET local_id == get(c.dados, "local_id", NULO)
        id == especialidade_escolhida(
                  mensagem, especialidades_do_local(meds, hd, local_id))
        dados == put(put(c.dados, "especialidade_id", id),
                     "especialidade_nome",
                     IF id # NULO THEN Especialidades[id].nome ELSE "")
        c2 == [c EXCEPT !.dados = dados, !.estado = "horarios"]
    IN IF id # NULO
       THEN IF ~ \E m \in IdsDe(meds) :
                     meds[m].ativo /\ meds[m].especialidade_id = id
            THEN Retorno(c2, pacs, ags,
                         Resposta(FALSE, "sem_medicos_da_especialidade",
                                  "especialidades", "especialidade"))
            ELSE processar_horarios("", c2, dados, pacs, ags, meds, hd, hj,
                                    ag, falha_bd)
       ELSE Retorno(c, pacs, ags,
                    Resposta(FALSE, "especialidade_nao_identificada",
                             "especialidades", "especialidade"))

\* _processar_solicitacao_anexo
processar_solicitacao_anexo(mensagem, c, dados, pacs, ags, falha_bd) ==
    LET mensagem_lower == strip(lower(mensagem))
    IN IF algum_em(mensagem_lower,
                   {"enviei", "enviado", "anexei", "anexado", "upload",
                    "foto", "arquivo", "ok", "pronto", "sim"})
       THEN Retorno([c EXCEPT !.dados =
                        put(put(dados, "anexo_recebido", TRUE),
                            "anexo_nome", "pedido_medico"),
                              !.estado = "confirmacao"],
                    pacs, ags,
                    Resposta(TRUE, "resumo_com_anexo", "confirmacao",
                             "confirmacao"))
       ELSE IF algum_em(mensagem_lower,
                        {"pular", "sem anexo", "não tenho", "nao tenho",
                         "depois", "não", "nao"})
       THEN Retorno([c EXCEPT !.estado = "confirmacao"], pacs, ags,
                    Resposta(TRUE, "resumo_sem_anexo", "confirmacao",
                             "confirmacao"))
       ELSE IF algum_em(mensagem_lower, {"link", "upload", "anexo"})
       THEN LET ags2 == Agendamento_create(
                            ags, c.paciente_id,
                            get(dados, "medico_id", NULO),
                            get(dados, "especialidade_id", NULO),
                            get(dados, "local_id", NULO),
                            get(dados, "data", NULO),
                            get(dados, "hora", NULO),
                            status_temporario, "", falha_bd)
            IN IF ags2 = << >>
               THEN Excecao(c, pacs, ags)
               ELSE Retorno([c EXCEPT !.dados =
                                put(dados, "agendamento_temp_id", Len(ags2))],
                            pacs, ags2,
                            [Resposta(TRUE, "link_para_upload",
                                      "solicitacao_anexo",
                                      "solicitacao_anexo")
                               EXCEPT !.agendamento_id = Len(ags2)])
       ELSE Retorno(c, pacs, ags,
                    Resposta(TRUE, "pedido_medico_necessario",
                             "solicitacao_anexo", "solicitacao_anexo"))

\* a confirm step that writes the appointment as cancelled
status_padrao_cancelado == "cancelado"

\* agendamentos.status TEXT DEFAULT 'agendado'
status_padrao == "agendado"

\* _processar_confirmacao
processar_confirmacao(mensagem, c, dados, pacs, ags, falha_bd) ==
    LET mensagem_lower == strip(lower(mensagem))
        erro == [Retorno(c, pacs, ags,
                         Resposta(FALSE, "erro_ao_confirmar", "erro",
                                  "horarios"))
                   EXCEPT !.falhou = TRUE]
    IN IF algum_em(mensagem_lower, {"sim", "s", "confirmo", "ok", "confirmar"})
       THEN IF {"medico_id", "especialidade_id", "local_id",
                "data_agendamento", "hora_agendamento"} \subseteq DOMAIN dados
            THEN LET ags2 == Agendamento_create(
                                 ags, c.paciente_id, dados["medico_id"],
                                 dados["especialidade_id"],
                                 dados["local_id"],
                                 dados["data_agendamento"],
                                 dados["hora_agendamento"],
                                 status_padrao,
                                 get(dados, "anexo_nome", ""), falha_bd)
                 IN IF ags2 = << >>
                    THEN erro
                    ELSE Retorno([c EXCEPT !.estado = "finalizado",
                                           !.dados = Vazio],
                                 pacs, ags2,
                                 [Resposta(TRUE, "agendamento_confirmado",
                                           "sucesso", "finalizado")
                                    EXCEPT !.agendamento_id = Len(ags2)])
            ELSE erro
       ELSE IF algum_em(mensagem_lower,
                        {"não", "nao", "n", "cancelar", "voltar"})
       THEN Retorno([c EXCEPT !.estado = "horarios"], pacs, ags,
                    Resposta(TRUE, "mostrar_outros_horarios", "horarios",
                             "horarios"))
       ELSE Retorno(c, pacs, ags,
                    Resposta(FALSE, "nao_entendi_confirmacao", "confirmacao",
                             "confirmacao"))

\* the dispatch of processar_mensagem on the state read at entry
despachar(mensagem, c, estado, dados, pacs, ags, meds, hd, hj, ag, ia, falha_bd) ==
    IF estado # "cancelamento" /\ palavras_chave[mensagem].cancelamento
    THEN processar_cancelamento(
             mensagem, [c EXCEPT !.estado = "cancelamento", !.dados = Vazio],
             pacs, ags, hj, ag)
    ELSE IF palavras_chave[mensagem].saudacao
    THEN processar_inicio(
             mensagem, [c EXCEPT !.estado = "inicio", !.dados = Vazio],
             pacs, ags, ia)
    ELSE IF estado = "inicio" \/ estado = "finalizado"
    THEN processar_inicio(mensagem, c, pacs, ags, ia)
    ELSE IF estado = "aguardando_cpf"
    THEN processar_cpf(mensagem, c, pacs, ags)
    ELSE IF estado = "cadastro"
    THEN processar_cadastro(mensagem, c, dados, pacs, ags, hj, falha_bd)
    ELSE IF estado = "local"
    THEN processar_local(mensagem, c, pacs, ags)
    ELSE IF estado = "especialidade"
    THEN processar_especialidade(mensagem, c, pacs, ags, meds, hd, hj, ag,
                                 falha_bd)
    ELSE IF estado = "horarios"
    THEN processar_horarios(mensagem, c, dados, pacs, ags, meds, hd, hj, ag,
                            falha_bd)
    ELSE IF estado = "solicitacao_anexo"
    THEN processar_solicitacao_anexo(mensagem, c, dados, pacs, ags, falha_bd)
    ELSE IF estado = "confirmacao"
    THEN processar_confirmacao(mensagem, c, dados, pacs, ags, falha_bd)
    ELSE IF estado = "cancelamento"
    THEN processar_cancelamento(mensagem, c, pacs, ags, hj, ag)
    ELSE IF estado = "consulta_agendamentos"
    THEN processar_cpf(mensagem, c, pacs, ags)
    ELSE processar_inicio(
             mensagem, [c EXCEPT !.estado = "inicio", !.dados = Vazio],
             pacs, ags, ia)

\* processar_mensagem, the except block: the error is logged, the
\* conversation goes back to inicio with an empty draft and the standard
\* error response is returned
tratar_excecao(r) ==
    IF r.excecao
    THEN [r EXCEPT !.c = [r.c EXCEPT !.estado = "inicio", !.dados = Vazio],
                   !.resp = resposta_erro("vamos_recomecar")]
    ELSE r

\* processar_mensagem: the dispatch inside try, handed to the except block
processar_mensagem(mensagem, c, pacs, ags, meds, hd, hj, ag, ia, falha_bd) ==
    tratar_excecao(despachar(mensagem, c,
                             IF c.estado = "" THEN "inicio" ELSE c.estado,
                             c.dados, pacs, ags, meds, hd, hj, ag, ia,
                             falha_bd))

-----------------------------------------------------------------------------
(* The routes of app.py around the state machine                          *)

Sessoes == {"s1"}

\* Conversa.create(session_id=session_id, estado='inicio')
conversa_nova == [estado |-> "inicio", dados |-> Vazio, paciente_id |-> NULO]

\* Conversa.find_by_session, or the row /chat creates when there is none
conversa_da_sessao(s) ==
    IF s \in DOMAIN conversas THEN conversas[s] ELSE conversa_nova

\* whether processar_mensagem hands the message to _processar_inicio
vai_para_inicio(mensagem, estado) ==
    /\ ~(estado # "cancelamento" /\ palavras_chave[mensagem].cancelamento)
    /\ \/ palavras_chave[mensagem].saudacao
       \/ estado \notin {"aguardando_cpf", "cadastro", "local",
                         "especialidade", "horarios", "solicitacao_anexo",
                         "confirmacao", "cancelamento",
                         "consulta_agendamentos"}

\* whether _detectar_tipo_mensagem gets as far as the remote classifier
consulta_ia(mensagem, estado) ==
    /\ vai_para_inicio(mensagem, estado)
    /\ palavras_chave[mensagem].tipo = ""

\* hours a conversation may stay idle, and rows one clean-up takes
HorasOciosas == 6
LimiteLimpeza == 5

\* a dict without the keys of a set
sem(d, chaves) == [x \in (DOMAIN d) \ chaves |-> d[x]]

\* a clean-up that takes the finished conversations too
conversas_abandonadas_e_finalizadas(tabela, carimbos, instante) ==
    { x \in DOMAIN tabela : carimbos[x] < instante - HorasOciosas * 60 }

\* SELECT * FROM conversas WHERE atualizado_em < ? AND estado != 'finalizado'
\* with ? = utcnow() - 6 hours
conversas_abandonadas(tabela, carimbos, instante) ==
    { x \in DOMAIN tabela :
        /\ carimbos[x] < instante - HorasOciosas * 60
        /\ tabela[x].estado # "finalizado" }

\* POST /chat: processar_chat, for a table of at most `limite`
\* appointments.  The row of the session is found or created and stamped
\* with the time of the request; `limpeza` says that random.randint(1, 20)
\* gave 1, and then at most LimiteLimpeza of the abandoned conversations
\* are deleted; the message is processed and the row saved (an UPDATE,
\* which does nothing to a deleted row).  falha_bd says that the database
\* does not take the INSERT of this turn; it is drawn only for a turn that
\* gets as far as an INSERT
processar_chat(s, mensagem, ia, falha_bd, limite, limpeza) ==
    LET antes == conversa_da_sessao(s)
        instante == timestamp(hoje, agora)
        carimbos == put(atualizado_em, s, instante)
        abandonadas ==
            IF limpeza
            THEN conversas_abandonadas(put(conversas, s, antes), carimbos,
                                       instante)
            ELSE {}
        quantas == IF Cardinality(abandonadas) < LimiteLimpeza
                   THEN Cardinality(abandonadas) ELSE LimiteLimpeza
    IN /\ ia # "falha" => consulta_ia(mensagem, antes.estado)
       /\ \E r \in {processar_mensagem(mensagem, antes, pacientes,
                                       agendamentos, medicos, horarios_disp,
                                       hoje, agora, ia, falha_bd)},
             apagadas \in SUBSET abandonadas :
            /\ Cardinality(apagadas) = quantas
            /\ falha_bd => r.falhou
            /\ Len(r.agendamentos) <= limite
            /\ Len(r.pacientes) <= MaxPacientes
            /\ conversas' = IF s \in apagadas THEN sem(conversas, apagadas)
                            ELSE put(sem(conversas, apagadas), s, r.c)
            /\ atualizado_em' = sem(carimbos, apagadas)
            /\ pacientes' = r.pacientes
            /\ agendamentos' = r.agendamentos
            /\ gerados' = r.horarios
            /\ ultima' = [op |-> "chat", sessao |-> s,
                          mensagem |-> mensagem,
                          estado_antes |-> antes.estado,
                          ags_antes |-> agendamentos,
                          tipo |-> IF vai_para_inicio(mensagem, antes.estado)
                                   THEN detectar_tipo_mensagem(mensagem, ia)
                                   ELSE "",
                          escolha |-> r.escolha, resp |-> r.resp,
                          falhou |-> r.falhou, apagadas |-> apagadas]
       /\ UNCHANGED <<hoje, agora, medicos, horarios_disp, arquivos,
                      recorrentes>>

\* the chat of a clinic whose clock stands still: no conversation is idle
\* for six hours and the clean-up, drawn or not, finds none
Chat(s, mensagem, ia) ==
    processar_chat(s, mensagem, ia, FALSE, MaxAgendamentos,
                   FALSE)

\* POST /chat/upload: processar_upload_chat with a file that
\* allowed_file accepts (arquivo_valido) or rejects
Upload(s, arquivo_valido) ==
    LET existe_conversa == s \in DOMAIN conversas
        antes == conversa_da_sessao(s)
        agendamento_temp_id == get(antes.dados, "agendamento_temp_id", NULO)
        paciente_id == antes.paciente_id
        aceito == /\ existe_conversa
                  /\ paciente_id # NULO
                  /\ existe(pacientes, paciente_id)
                  /\ arquivo_valido
        com_agendamento == /\ aceito
                           /\ agendamento_temp_id # NULO
                           /\ existe(agendamentos, agendamento_temp_id)
        resp == IF ~aceito
                THEN Resposta(FALSE, "upload_recusado", "", "")
                ELSE IF com_agendamento
                THEN Resposta(TRUE, "arquivo_recebido", "confirmacao",
                              "confirmacao")
                ELSE Resposta(TRUE, "arquivo_salvo", "confirmacao_arquivo",
                              "inicio")
    IN /\ aceito => Len(arquivos) < MaxArquivos
       /\ arquivos' =
            IF aceito
            THEN Append(arquivos,
                        [paciente_id |-> paciente_id,
                         agendamento_id |-> IF com_agendamento
                                            THEN agendamento_temp_id
                                            ELSE NULO])
            ELSE arquivos
       /\ agendamentos' =
            IF com_agendamento
            THEN [agendamentos EXCEPT
                    ![agendamento_temp_id].anexo_nome = "arquivo",
                    ![agendamento_temp_id].status = "pendente_confirmacao"]
            ELSE agendamentos
       /\ conversas' =
            IF com_agendamento
            THEN put(conversas, s,
                     [antes EXCEPT
                        !.dados = put(put(antes.dados, "anexo_recebido",
                                          TRUE),
                                      "anexo_nome", "arquivo"),
                        !.estado = "confirmacao"])
            ELSE conversas
       /\ ultima' = [op |-> "upload", sessao |-> s, mensagem |-> "",
                     estado_antes |-> antes.estado,
                     ags_antes |-> agendamentos, tipo |-> "",
                     escolha |-> << >>, resp |-> resp, falhou |-> FALSE]
       /\ atualizado_em' =
            IF com_agendamento
            THEN put(atualizado_em, s, timestamp(hoje, agora))
            ELSE atualizado_em
       /\ gerados' = << >>
       /\ UNCHANGED <<hoje, agora, medicos, horarios_disp, pacientes,
                      recorrentes>>

\* the doctors and availability rows of the clinic
MedicosClinica == <<
    [nome |-> "Dra. Maria Santos", especialidade_id |-> 1, ativo |-> TRUE,
     data_abertura_agenda |-> NULO],
    [nome |-> "Dr. Pedro Lima", especialidade_id |-> 2, ativo |-> TRUE,
     data_abertura_agenda |-> NULO] >>

HorariosClinica == <<
    LinhaG(1, 2, Janela1), LinhaG(1, 3, Janela1), LinhaG(2, 3, Janela1) >>

Init ==
    /\ hoje = 1
    /\ agora = 600
    /\ medicos = MedicosClinica
    /\ horarios_disp = HorariosClinica
    /\ pacientes = PacientesIniciais
    /\ agendamentos = << >>
    /\ conversas = SemConversas
    /\ arquivos = << >>
    /\ recorrentes = << >>
    /\ atualizado_em = SemConversas
    /\ gerados = << >>
    /\ ultima = [op |-> "nenhuma"]

Next ==
    \/ \E s \in Sessoes, mensagem \in Mensagens, ia \in RespostasIA :
          Chat(s, mensagem, ia)
    \/ \E s \in Sessoes, arquivo_valido \in BOOLEAN :
          Upload(s, arquivo_valido)

Spec == Init /\ [][Next]_vars

-----------------------------------------------------------------------------
(* Two sessions that book at the same time: each identifies the patient,  *)
(* picks the location and the specialty, chooses a slot and confirms      *)

MaxAgendamentosConc == 2  \* rows the agendamentos table may hold here

SessoesConc == {"s1", "s2"}

MensagensConc == {"11111111111", "Contagem", "Cardiologia", "1", "sim"}

ChatConc(s, mensagem, ia) ==
    processar_chat(s, mensagem, ia, FALSE, MaxAgendamentosConc,
                   FALSE)

NextConc ==
    \E s \in SessoesConc, mensagem \in MensagensConc, ia \in RespostasIA :
        ChatConc(s, mensagem, ia)

SpecConc == Init /\ [][NextConc]_vars

-----------------------------------------------------------------------------
(* A booking during which the database may refuse an INSERT: the request   *)
(* that reaches Agendamento.create or Paciente.create may find it raising  *)

MensagensFalhas == {"11111111111", "Contagem", "Cardiologia", "Ortopedia",
                    "1", "sim"}

ChatFalhas(s, mensagem, ia, falha_bd) ==
    processar_chat(s, mensagem, ia, falha_bd, MaxAgendamentos,
                   FALSE)

NextFalhas ==
    \E s \in Sessoes, mensagem \in MensagensFalhas, ia \in RespostasIA,
       falha_bd \in BOOLEAN :
        ChatFalhas(s, mensagem, ia, falha_bd)

SpecFalhas == Init /\ [][NextFalhas]_vars

-----------------------------------------------------------------------------
(* Two sessions that register the same new ID at the same time; the        *)
(* classifier, when asked, answers agendamento or fails                    *)

MensagensCadastroConc == {"22222222222", "15/03/1990", "pular"}

ChatCadastroConc(s, mensagem, ia) ==
    processar_chat(s, mensagem, ia, FALSE, MaxAgendamentos,
                   FALSE)

NextCadastroConc ==
    \E s \in SessoesConc, mensagem \in MensagensCadastroConc,
       ia \in {"agendamento", "falha"} :
        ChatCadastroConc(s, mensagem, ia)

SpecCadastroConc == Init /\ [][NextCadastroConc]_vars

-----------------------------------------------------------------------------
(* One session that books while the admin edits the availability rows:     *)
(* a row moved to another location or to a Saturday leaves a specialty     *)
(* without rows or without slots                                           *)

MensagensAgenda == {"11111111111", "Contagem", "Cardiologia", "Ortopedia",
                    "1"}

ChatAgenda(s, mensagem, ia) ==
    processar_chat(s, mensagem, ia, FALSE, MaxAgendamentos,
                   FALSE)

\* editar_horario: the admin form saved with another location and another
\* day of the week for the row
editar_horario(horario_id, local_id, dia_semana) ==
    /\ existe(horarios_disp, horario_id)
    /\ existe(Locais, local_id)
    /\ horarios_disp' = [horarios_disp EXCEPT
                            ![horario_id].local_id = local_id,
                            ![horario_id].dia_semana = dia_semana]
    /\ ultima' = [op |-> "editar_horario", horario_id |-> horario_id]
    /\ UNCHANGED <<hoje, agora, medicos, pacientes, agendamentos,
                   conversas, arquivos, gerados, recorrentes, atualizado_em>>

NextAgenda ==
    \/ \E s \in Sessoes, mensagem \in MensagensAgenda,
          ia \in {"agendamento", "falha"} :
          ChatAgenda(s, mensagem, ia)
    \/ \E horario_id \in 1..3, local_id \in 1..2, dia_semana \in {3, 5} :
          editar_horario(horario_id, local_id, dia_semana)

SpecAgenda == Init /\ [][NextAgenda]_vars

-----------------------------------------------------------------------------
(* One session that books a specialty that requires an attachment and      *)
(* uploads a file                                                          *)

MaxAgendamentosAnexo == 2  \* rows the agendamentos table may hold here

ChatAnexo(s, mensagem, ia) ==
    processar_chat(s, mensagem, ia, FALSE, MaxAgendamentosAnexo,
                   FALSE)

NextAnexo ==
    \/ \E s \in Sessoes, mensagem \in MensagensAnexo,
          ia \in {"agendamento", "falha"} :
          ChatAnexo(s, mensagem, ia)
    \/ \E s \in Sessoes, arquivo_valido \in BOOLEAN :
          Upload(s, arquivo_valido)

SpecAnexo == Init /\ [][NextAnexo]_vars

-----------------------------------------------------------------------------
(* One session of a patient who has appointments, cancelling and looking   *)
(* them up, while the admin marks appointments as done                     *)

\* the appointments of patient 1: the second was cancelled in a chat
AgendamentosDoPaciente == <<
    [paciente_id |-> 1, medico_id |-> 1, especialidade_id |-> 1,
     local_id |-> 1, data |-> 2, hora |-> 480, status |-> "agendado",
     anexo_nome |-> "", motivo_cancelamento |-> "", cancelado_em |-> NULO],
    [paciente_id |-> 1, medico_id |-> 1, especialidade_id |-> 1,
     local_id |-> 1, data |-> 2, hora |-> 510, status |-> "cancelado",
     anexo_nome |-> "",
     motivo_cancelamento |-> "Cancelado pelo paciente via chatbot",
     cancelado_em |-> 500],
    [paciente_id |-> 1, medico_id |-> 1, especialidade_id |-> 1,
     local_id |-> 1, data |-> 3, hora |-> 480, status |-> "agendado",
     anexo_nome |-> "", motivo_cancelamento |-> "", cancelado_em |-> NULO] >>

InitCancelamento ==
    /\ hoje = 1
    /\ agora = 600
    /\ medicos = MedicosClinica
    /\ horarios_disp = HorariosClinica
    /\ pacientes = PacientesIniciais
    /\ agendamentos = AgendamentosDoPaciente
    /\ conversas = SemConversas
    /\ arquivos = << >>
    /\ recorrentes = << >>
    /\ atualizado_em = SemConversas
    /\ gerados = << >>
    /\ ultima = [op |-> "nenhuma"]

ChatCancelamento(s, mensagem, ia) ==
    processar_chat(s, mensagem, ia, FALSE, Len(AgendamentosDoPaciente),
                   FALSE)

\* concluir_agendamento: the admin marks an appointment as done
concluir_agendamento(agendamento_id) ==
    /\ existe(agendamentos, agendamento_id)
    /\ agendamentos' = [agendamentos EXCEPT
                           ![agendamento_id].status = "concluido"]
    /\ ultima' = [op |-> "concluir_agendamento",
                  agendamento_id |-> agendamento_id]
    /\ UNCHANGED <<hoje, agora, medicos, horarios_disp, pacientes,
                   conversas, arquivos, gerados, recorrentes, atualizado_em>>

NextCancelamento ==
    \/ \E s \in Sessoes, mensagem \in MensagensCancelamento,
          ia \in {"agendamento", "consulta", "falha"} :
          ChatCancelamento(s, mensagem, ia)
    \/ \E agendamento_id \in 1..Len(AgendamentosDoPaciente) :
          concluir_agendamento(agendamento_id)

SpecCancelamento == InitCancelamento /\ [][NextCancelamento]_vars

-----------------------------------------------------------------------------
(* Two sessions of a patient with appointments while the clock runs and   *)
(* the clean-up of abandoned conversations is drawn                        *)

\* minutes the clock advances in one step: the idle limit
PassoDoRelogio == HorasOciosas * 60

\* datetime.utcnow() read by a later request: the clock has advanced,
\* within the day
passar_tempo ==
    /\ agora + PassoDoRelogio < MinutosDia
    /\ agora' = agora + PassoDoRelogio
    /\ UNCHANGED <<hoje, medicos, horarios_disp, pacientes, agendamentos,
                   conversas, arquivos, recorrentes, atualizado_em, gerados,
                   ultima>>

NextLimpeza ==
    \/ \E s \in {"s1", "s2", "s3"},
          mensagem \in {"ver consultas", "11111111111"},
          ia \in {"consulta", "falha"}, limpeza \in BOOLEAN :
          processar_chat(s, mensagem, ia, FALSE, Len(AgendamentosDoPaciente),
                         limpeza)
    \/ passar_tempo

SpecLimpeza == InitCancelamento /\ [][NextLimpeza]_vars

-----------------------------------------------------------------------------
(* Two registered patients, each with an appointment: one session books  *)
(* and cancels for either while another cancels for the second; the      *)
(* remote classifier does not answer                                       *)

MaxAgendamentosPacientes == 3  \* rows the agendamentos table may hold here

InitPacientes ==
    /\ hoje = 1
    /\ agora = 600
    /\ medicos = MedicosClinica
    /\ horarios_disp = HorariosClinica
    /\ pacientes = Append(PacientesIniciais,
                          [cpf |-> "22222222222", nome |-> "Bruno Reis",
                           data_nascimento |-> <<1985, 7, 2>>,
                           telefone |-> "31988880000", email |-> "",
                           carteirinha |-> "",
                           tipo_atendimento |-> "particular"])
    /\ agendamentos =
         << [paciente_id |-> 1, medico_id |-> 1, especialidade_id |-> 1,
             local_id |-> 1, data |-> 2, hora |-> 480, status |-> "agendado",
             anexo_nome |-> "", motivo_cancelamento |-> "",
             cancelado_em |-> NULO],
            [paciente_id |-> 2, medico_id |-> 1, especialidade_id |-> 1,
             local_id |-> 1, data |-> 3, hora |-> 480, status |-> "agendado",
             anexo_nome |-> "", motivo_cancelamento |-> "",
             cancelado_em |-> NULO] >>
    /\ conversas = SemConversas
    /\ arquivos = << >>
    /\ recorrentes = << >>
    /\ atualizado_em = SemConversas
    /\ gerados = << >>
    /\ ultima = [op |-> "nenhuma"]

NextPacientes ==
    \/ \E mensagem \in {"oi", "cancelar", "11111111111", "22222222222",
                         "Contagem", "Cardiologia", "1", "sim"} :
          processar_chat("s1", mensagem, "falha", FALSE,
                         MaxAgendamentosPacientes, FALSE)
    \/ \E mensagem \in {"cancelar", "22222222222", "1"} :
          processar_chat("s2", mensagem, "falha", FALSE,
                         MaxAgendamentosPacientes, FALSE)

SpecPacientes == InitPacientes /\ [][NextPacientes]_vars

-----------------------------------------------------------------------------
(* One session that registers a new patient, with well-formed and          *)
(* malformed answers at every step                                         *)

ChatCadastro(s, mensagem, ia) ==
    processar_chat(s, mensagem, ia, FALSE, MaxAgendamentos,
                   FALSE)

NextCadastro ==
    \E s \in Sessoes, mensagem \in MensagensCadastro, ia \in RespostasIA :
        ChatCadastro(s, mensagem, ia)

SpecCadastro == Init /\ [][NextCadastro]_vars

-----------------------------------------------------------------------------
(* The functions of the engine on their own: each action applies one of    *)
(* them to an input and keeps the input and the result in `ultima`         *)

\* messages for _extrair_cpf, with 0 to 12 digits among other characters
TextosCpf == {"", "ola", "1234567890", "12345678901", "123456789012",
              "123.456.789-01", "cpf 123.456.789-01", "123.456.789-0",
              "1 2 3 4 5 6 7 8 9 0 1", "meu cpf: 98765432100 ok",
              "0000000000a0", "a1b2c3d4e5f6g7h8i9j0k1", "11 de 11",
              "111222333445 ", "tel 31 3333-4444", "00000000000"}

\* messages for _interpretar_escolha_horario that are a number
TextosEscolha == {"0", "1", "2", "3", "4", "5", "6", "7", "05", "000",
                  "10", " 2 ", "999999999999"}

\* the candidates slot generation returns for Cardiologia in Contagem on
\* the day and at the time of Init
CandidatosClinica ==
    gerar_horarios_disponiveis(
        consulta_medicos_horarios(MedicosClinica, HorariosClinica, 1, 1, 1),
        MedicosClinica, << >>, 1, 600, "nenhuma")

ExtrairCpf(mensagem) ==
    /\ ultima' = [op |-> "extrair_cpf", mensagem |-> mensagem,
                  cpf |-> extrair_cpf(mensagem)]
    /\ UNCHANGED <<hoje, agora, medicos, horarios_disp, pacientes,
                   agendamentos, conversas, arquivos, gerados, recorrentes,
                   atualizado_em>>

InterpretarEscolha(mensagem, n) ==
    /\ gerados' = primeiros(CandidatosClinica, n)
    /\ ultima' = [op |-> "interpretar_escolha", mensagem |-> mensagem,
                  indice |-> interpretar_escolha_horario(
                                 mensagem, primeiros(CandidatosClinica, n))]
    /\ UNCHANGED <<hoje, agora, medicos, horarios_disp, pacientes,
                   agendamentos, conversas, arquivos, recorrentes,
                   atualizado_em>>

\* messages that choose a slot by its date, its time, both or neither
TextosLivres == {"07/01", "08:30", "07/01 08:30", "14/01 as 8h",
                 "14/01 08:30", "09/01", "dia 7-1", "8 horas", "10h",
                 "8.1 8h30", "qualquer um", "o primeiro"}

InterpretarEscolhaLivre(mensagem, n) ==
    /\ gerados' = primeiros(CandidatosClinica, n)
    /\ ultima' = [op |-> "interpretar_escolha_livre", mensagem |-> mensagem,
                  indice |-> interpretar_escolha_horario(
                                 mensagem, primeiros(CandidatosClinica, n))]
    /\ UNCHANGED <<hoje, agora, medicos, horarios_disp, pacientes,
                   agendamentos, conversas, arquivos, recorrentes,
                   atualizado_em>>

DetectarTipo(mensagem, ia) ==
    /\ ultima' = [op |-> "detectar_tipo", mensagem |-> mensagem, ia |-> ia,
                  tipo |-> detectar_tipo_mensagem(mensagem, ia)]
    /\ UNCHANGED <<hoje, agora, medicos, horarios_disp, pacientes,
                   agendamentos, conversas, arquivos, gerados, recorrentes,
                   atualizado_em>>

NextFuncoes ==
    \/ \E mensagem \in TextosCpf : ExtrairCpf(mensagem)
    \/ \E mensagem \in TextosEscolha, n \in 0..MaxHorarios :
          InterpretarEscolha(mensagem, n)
    \/ \E mensagem \in MensagensClassificador, ia \in TextosIA :
          DetectarTipo(mensagem, ia)
    \/ \E mensagem \in TextosLivres, n \in 0..MaxHorarios :
          InterpretarEscolhaLivre(mensagem, n)

SpecFuncoes == Init /\ [][NextFuncoes]_vars

-----------------------------------------------------------------------------
(* Properties of slot generation, checked under SpecGerador               *)

MesmoHorario(h, a) ==
    h.medico_id = a.medico_id /\ h.data = a.data /\ h.hora = a.hora

\* C2: no slot returned by slot generation has the (doctor, date, time) of
\* an appointment whose status is scheduled at the moment of generation.
C2_SemSlotOcupado ==
    ultima.op = "gerar" =>
        \A i \in 1..Len(gerados) : \A j \in 1..Len(agendamentos) :
            ~(agendamentos[j].status = "agendado"
              /\ MesmoHorario(gerados[i], agendamentos[j]))

\* generation ran, returned slots, and left out a slot of its rows that a
\* scheduled appointment occupies
C2_Witness ==
    /\ ultima.op = "gerar"
    /\ Len(gerados) > 0
    /\ \E j \in 1..Len(agendamentos) :
          /\ agendamentos[j].status = "agendado"
          /\ LET livres == gerar_horarios_disponiveis(
                     consulta_medicos_horarios(medicos, horarios_disp, 1, 1, 1),
                     medicos, << >>, hoje, agora, "nenhuma")
             IN \E i \in 1..Len(livres) : MesmoHorario(livres[i], agendamentos[j])

\* C3: a generated list has at most 5 entries, none on Saturday or Sunday,
\* and none dated today that starts earlier than now + 1 hour.
C3_LimiteFimDeSemanaMargem ==
    ultima.op = "gerar" =>
        /\ Len(gerados) <= 5
        /\ \A i \in 1..Len(gerados) :
              /\ weekday(gerados[i].data) \notin {5, 6}
              /\ ~(gerados[i].data = hoje
                   /\ timestamp(gerados[i].data, gerados[i].hora)
                        < timestamp(hoje, agora) + 60)

\* generation ran and filled all 5 places although the rows held a Saturday
\* row and a row for today whose first slot is inside the 1 hour margin
C3_Witness ==
    /\ ultima.op = "gerar"
    /\ Len(gerados) = 5
    /\ \E k \in 1..Len(horarios_disp) : horarios_disp[k].dia_semana = 5
    /\ \E k \in 1..Len(horarios_disp) :
          /\ horarios_disp[k].dia_semana = weekday(hoje)
          /\ horarios_disp[k].hora_inicio < agora + 60

GrupoQuinta(h) == weekday(h.data) = 3

\* C4: in a generated list every Thursday slot precedes every slot of
\* another weekday, and each of the two groups is in non-decreasing order
\* of timestamp.
C4_QuintaPrimeiro ==
    ultima.op = "gerar" =>
        \A i \in 1..Len(gerados) : \A j \in 1..Len(gerados) :
            i < j =>
                /\ ~(~GrupoQuinta(gerados[i]) /\ GrupoQuinta(gerados[j]))
                /\ (GrupoQuinta(gerados[i]) = GrupoQuinta(gerados[j])
                    => gerados[i].timestamp <= gerados[j].timestamp)

\* generation returned a Thursday slot ahead of an earlier slot of another
\* weekday, and two slots of one group
C4_Witness ==
    /\ ultima.op = "gerar"
    /\ \E i \in 1..Len(gerados) : \E j \in 1..Len(gerados) :
          /\ i < j
          /\ GrupoQuinta(gerados[i]) /\ ~GrupoQuinta(gerados[j])
          /\ gerados[j].timestamp < gerados[i].timestamp
    /\ \E i \in 1..Len(gerados) : \E j \in 1..Len(gerados) :
          i < j /\ GrupoQuinta(gerados[i]) = GrupoQuinta(gerados[j])

-----------------------------------------------------------------------------
(* Properties of the dialogue, checked under Spec and SpecConc            *)

\* the conversation of the session the last request came from
conversa_atual == conversas[ultima.sessao]

\* the message holds one of the cancellation keywords
tem_palavra_de_cancelamento(mensagem) ==
    \E k \in {"cancelar", "desmarcar", "remover consulta", "cancelo",
              "cancelamento"} : contem(lower(mensagem), k)

\* the last request was a chat message with a cancellation keyword, sent
\* in a state other than cancellation
CancelamentoPedido ==
    /\ ultima.op = "chat"
    /\ ultima.estado_antes # "cancelamento"
    /\ tem_palavra_de_cancelamento(ultima.mensagem)

\* the draft the cancellation flow builds for a registered patient
RascunhoDoPaciente(paciente_id, cpf) ==
    LET ativos == { i \in 1..Len(agendamentos) :
                      /\ agendamentos[i].paciente_id = paciente_id
                      /\ agendamentos[i].status = "agendado" }
    IN IF ativos = {}
       THEN conversa_atual.dados =
                [cpf |-> cpf, paciente_id |-> paciente_id,
                 acao_desejada |-> "agendar"]
       ELSE /\ DOMAIN conversa_atual.dados = {"agendamentos_para_cancelar"}
            /\ { conversa_atual.dados["agendamentos_para_cancelar"][k] :
                   k \in 1..Len(conversa_atual.dados[
                                    "agendamentos_para_cancelar"]) } = ativos

\* C1: at most one appointment with status agendado exists for any
\* (doctor, date, time), whatever the interleaving of the sessions.
C1_UmAgendadoPorHorario ==
    \A i, j \in 1..Len(agendamentos) :
        ( /\ i # j
          /\ agendamentos[i].status = "agendado"
          /\ agendamentos[j].status = "agendado"
          /\ agendamentos[i].medico_id = agendamentos[j].medico_id
          /\ agendamentos[i].data = agendamentos[j].data )
        => agendamentos[i].hora # agendamentos[j].hora

\* C5 as stated: after a message with a cancellation keyword, sent in a
\* state other than cancelamento, the state is cancelamento and the draft
\* is empty.
C5_CancelamentoRascunhoVazio ==
    CancelamentoPedido =>
        /\ conversa_atual.estado = "cancelamento"
        /\ conversa_atual.dados = Vazio

\* C5: after a message with a cancellation keyword, sent in a state other
\* than cancelamento, the state is cancelamento; the draft is empty unless
\* the message also carries the 11-digit ID of a registered patient, and
\* then it holds that patient's identification or the list of the
\* patient's scheduled appointments.
C5_CancelamentoEmQualquerEstado ==
    CancelamentoPedido =>
        /\ conversa_atual.estado = "cancelamento"
        /\ LET cpf == extrair_cpf(ultima.mensagem)
               paciente_id == find_by_cpf(pacientes, cpf)
           IN IF cpf = "" \/ paciente_id = NULO
              THEN conversa_atual.dados = Vazio
              ELSE RascunhoDoPaciente(paciente_id, cpf)

C5_Witness ==
    /\ CancelamentoPedido
    /\ ultima.estado_antes = "confirmacao"
    /\ conversa_atual.estado = "cancelamento"
    /\ extrair_cpf(ultima.mensagem) # ""
    /\ conversa_atual.dados # Vazio

\* C6 as stated: after the message "oi", in whatever state it was sent,
\* the state is inicio, the draft is empty and the response asks for the
\* patient ID.
C6_OiVoltaAoInicio ==
    (ultima.op = "chat" /\ ultima.mensagem = "oi") =>
        /\ conversa_atual.estado = "inicio"
        /\ conversa_atual.dados = Vazio
        /\ ultima.resp.message = "pedir_cpf_agendamento"

\* C6: after the message "oi", in whatever state it was sent, the draft is
\* empty and the state is the one the start handler picks for the
\* classified intent: aguardando_cpf with a response that asks for the
\* patient ID when the intent is scheduling, cancelamento or
\* consulta_agendamentos when the classifier says so, inicio when it says
\* information or out of scope.
C6_OiReiniciaConversa ==
    (ultima.op = "chat" /\ ultima.mensagem = "oi") =>
        /\ conversa_atual.dados = Vazio
        /\ ultima.tipo \in Rotulos
        /\ ultima.tipo = "agendamento" =>
              /\ conversa_atual.estado = "aguardando_cpf"
              /\ ultima.resp.message = "pedir_cpf_agendamento"
              /\ ultima.resp.proximo_estado = "aguardando_cpf"
        /\ ultima.tipo = "cancelamento" =>
              conversa_atual.estado = "cancelamento"
        /\ ultima.tipo = "consulta" =>
              conversa_atual.estado = "consulta_agendamentos"
        /\ ultima.tipo \in {"informacao", "fora_escopo"} =>
              conversa_atual.estado = "inicio"

C6_Witness ==
    /\ ultima.op = "chat" /\ ultima.mensagem = "oi"
    /\ ultima.estado_antes = "confirmacao"
    /\ ultima.tipo = "agendamento"
    /\ conversa_atual.estado = "aguardando_cpf"
    /\ conversa_atual.dados = Vazio

\* the last request was a valid slot choice made in state horarios
EscolhaFeita ==
    /\ ultima.op = "chat"
    /\ ultima.estado_antes = "horarios"
    /\ ultima.escolha # << >>

\* the specialty of the doctor of the chosen candidate
EspecialidadeEscolhida == medicos[ultima.escolha[1].medico_id].especialidade_id

\* the specialty of the chosen candidate requires an attachment
EscolhaRequerAnexo == Especialidades[EspecialidadeEscolhida].requer_anexo

\* the table holds the rows `antes` and one more row after them, for the
\* candidate and the specialty given, with the status given
UmaLinhaNova(depois, antes, candidato, especialidade_id, status) ==
    /\ Len(depois) = Len(antes) + 1
    /\ SubSeq(depois, 1, Len(antes)) = antes
    /\ depois[Len(depois)].medico_id = candidato.medico_id
    /\ depois[Len(depois)].data = candidato.data
    /\ depois[Len(depois)].hora = candidato.hora
    /\ depois[Len(depois)].especialidade_id = especialidade_id
    /\ depois[Len(depois)].status = status

\* the request after a slot choice is the message "sim" of the same session
SimDepoisDaEscolha ==
    /\ EscolhaFeita
    /\ ultima'.op = "chat"
    /\ ultima'.sessao = ultima.sessao
    /\ ultima'.mensagem = "sim"

\* C7 as stated: a slot choice in state horarios followed by "sim" leaves
\* exactly one new appointment, for the doctor, date, time and specialty
\* of the chosen candidate and with status agendado, and changes no other
\* row.
C7_EscolhaESimCriamAgendamento ==
    [][ SimDepoisDaEscolha =>
          UmaLinhaNova(agendamentos', ultima.ags_antes, ultima.escolha[1],
                       EspecialidadeEscolhida, "agendado") ]_vars

\* C7: for a specialty that does not require an attachment, a slot choice
\* in state horarios followed by "sim" leaves exactly one new appointment,
\* for the doctor, date, time and specialty of the chosen candidate and
\* with status agendado, and changes no other row.
C7_EscolhaESimSemAnexo ==
    [][ (SimDepoisDaEscolha /\ ~EscolhaRequerAnexo) =>
          UmaLinhaNova(agendamentos', ultima.ags_antes, ultima.escolha[1],
                       EspecialidadeEscolhida, "agendado") ]_vars

C7_Witness ==
    /\ ultima.op = "chat" /\ ultima.mensagem = "sim"
    /\ ultima.estado_antes = "confirmacao"
    /\ ultima.resp.tipo = "sucesso"
    /\ conversa_atual.estado = "finalizado"
    /\ Len(agendamentos) = Len(ultima.ags_antes) + 1
    /\ agendamentos[Len(agendamentos)].status = "agendado"
    /\ ~Especialidades[agendamentos[Len(agendamentos)].especialidade_id]
          .requer_anexo

\* C8: when the chosen specialty requires an attachment, a valid slot
\* choice in state horarios answers with tipo solicitacao_anexo, moves the
\* conversation to solicitacao_anexo and leaves exactly one new appointment
\* with status pendente_anexo for the chosen doctor, date and time, whose
\* id the draft records as agendamento_temp_id.
C8_EscolhaComAnexoCriaTemporario ==
    (EscolhaFeita /\ EscolhaRequerAnexo) =>
        /\ ultima.resp.tipo = "solicitacao_anexo"
        /\ conversa_atual.estado = "solicitacao_anexo"
        /\ UmaLinhaNova(agendamentos, ultima.ags_antes, ultima.escolha[1],
                        EspecialidadeEscolhida, "pendente_anexo")
        /\ get(conversa_atual.dados, "agendamento_temp_id", NULO)
             = Len(agendamentos)

C8_Witness ==
    /\ EscolhaFeita
    /\ EscolhaRequerAnexo
    /\ conversa_atual.estado = "solicitacao_anexo"
    /\ agendamentos[Len(agendamentos)].status = "pendente_anexo"

\* the next request hands _processar_cpf a message with an 11-digit ID
\* that matches no patient
CpfDesconhecidoRecebido ==
    /\ ultima'.op = "chat"
    /\ LET c == conversa_da_sessao(ultima'.sessao)
           m == ultima'.mensagem
       IN /\ c.estado \in {"aguardando_cpf", "cancelamento",
                           "consulta_agendamentos"}
          /\ ~tem(c.dados, "agendamentos_para_cancelar")
          /\ ~eh_saudacao(m)
          /\ c.estado # "cancelamento" => ~eh_cancelamento(m)
          /\ extrair_cpf(m) # ""
          /\ find_by_cpf(pacientes, extrair_cpf(m)) = NULO

\* C9: an 11-digit ID that matches no patient is rejected in the flows
\* cancelamento and consulta_agendamentos, and the state becomes inicio;
\* in the other flows the state becomes cadastro at step nome with the ID
\* kept in the draft; no patient is created in either case.
C9_CpfDesconhecido ==
    [][ CpfDesconhecidoRecebido =>
          LET s == ultima'.sessao
              c == conversa_da_sessao(s)
          IN /\ pacientes' = pacientes
             /\ IF c.estado \in {"cancelamento", "consulta_agendamentos"}
                THEN /\ ~ultima'.resp.success
                     /\ conversas'[s].estado = "inicio"
                ELSE /\ conversas'[s].estado = "cadastro"
                     /\ get(conversas'[s].dados, "etapa_cadastro", "")
                          = "nome"
                     /\ get(conversas'[s].dados, "cpf", "")
                          = extrair_cpf(ultima'.mensagem) ]_vars

\* a text made of letters and blanks that starts with a capital letter
eh_texto_de_nome(mensagem) ==
    /\ Len(mensagem) > 0
    /\ Ch(mensagem, 1) \in Maiusculas
    /\ \A i \in 1..Len(mensagem) :
          Ch(mensagem, i) \in Letras \cup Maiusculas \cup {" "}

\* C10: in state cadastro at step nome, a name sent by the patient is
\* stored as nome in the draft and the step becomes data_nascimento while
\* the state stays cadastro, whatever the name is.
C10_NomeArmazenado ==
    [][ ( /\ ultima'.op = "chat"
          /\ conversa_da_sessao(ultima'.sessao).estado = "cadastro"
          /\ get(conversa_da_sessao(ultima'.sessao).dados,
                 "etapa_cadastro", "nome") = "nome"
          /\ eh_texto_de_nome(ultima'.mensagem) ) =>
          LET c == conversas'[ultima'.sessao]
          IN /\ c.estado = "cadastro"
             /\ get(c.dados, "nome", "") = ultima'.mensagem
             /\ get(c.dados, "etapa_cadastro", "") = "data_nascimento"
      ]_vars

-----------------------------------------------------------------------------
(* Properties of the failure policy, checked under SpecFalhas              *)

\* C11: when a call of a collaborator raises during processar_mensagem,
\* whatever the state, the response has success = false, the conversation
\* ends in state inicio with an empty draft, and nothing the turn wrote
\* stays: the patient reference and the two tables are as before the turn.
C11_FalhaReiniciaConversa ==
    [][ (ultima'.op = "chat" /\ ultima'.falhou) =>
          LET s == ultima'.sessao
          IN /\ ~ultima'.resp.success
             /\ conversas'[s].estado = "inicio"
             /\ conversas'[s].dados = Vazio
             /\ conversas'[s].paciente_id = conversa_da_sessao(s).paciente_id
             /\ agendamentos' = agendamentos
             /\ pacientes' = pacientes ]_vars

-----------------------------------------------------------------------------
(* Properties of the functions, checked under SpecFuncoes                  *)

\* the positions of the digits in a text
PosicoesDeDigitos(texto) == { i \in 1..Len(texto) : Ch(texto, i) \in Digitos }

\* the position of the k-th digit of a text
PosicaoDoDigito(texto, k) ==
    CHOOSE p \in PosicoesDeDigitos(texto) :
        Cardinality({ q \in PosicoesDeDigitos(texto) : q < p }) = k - 1

\* C12: for a message with exactly 11 digit characters the ID extraction
\* returns these 11 digits in the order of the message, whatever the other
\* characters are; for any other number of digit characters it returns
\* none.
C12_ExtrairCpfOnzeDigitos ==
    ultima.op = "extrair_cpf" =>
        LET m == ultima.mensagem
        IN IF Cardinality(PosicoesDeDigitos(m)) = 11
           THEN /\ Len(ultima.cpf) = 11
                /\ \A k \in 1..11 :
                      Ch(ultima.cpf, k) = Ch(m, PosicaoDoDigito(m, k))
           ELSE ultima.cpf = ""

C12_Witness ==
    /\ ultima.op = "extrair_cpf"
    /\ ultima.mensagem = "cpf 123.456.789-01"
    /\ ultima.cpf = "12345678901"

\* the number each message of TextosEscolha stands for
NumeroDe ==
    [t \in TextosEscolha |->
        CASE t = "0" -> 0 [] t = "1" -> 1 [] t = "2" -> 2 [] t = "3" -> 3
          [] t = "4" -> 4 [] t = "5" -> 5 [] t = "6" -> 6 [] t = "7" -> 7
          [] t = "05" -> 5 [] t = "000" -> 0 [] t = "10" -> 10
          [] t = " 2 " -> 2 [] t = "999999999999" -> GrandeInteiro]

\* C13: for a message that is a non-negative integer k and a list of n
\* candidates, the choice interpreter returns the k-th candidate when
\* 1 <= k <= n and no match when k = 0 or k > n: the number is not clamped
\* and no date or time is looked for.
C13_EscolhaPorNumero ==
    ultima.op = "interpretar_escolha" =>
        LET k == NumeroDe[ultima.mensagem]
        IN ultima.indice = IF 1 <= k /\ k <= Len(gerados) THEN k ELSE NULO

C13_Witness ==
    /\ ultima.op = "interpretar_escolha"
    /\ Len(gerados) = MaxHorarios
    /\ ultima.mensagem = "5"
    /\ ultima.indice = 5

-----------------------------------------------------------------------------
(* Properties of registration, checked under SpecCadastroConc and          *)
(* SpecCadastro                                                            *)

\* C14: however the requests of the sessions that register the same new ID
\* interleave, no two patients have the same ID, and the session whose
\* Paciente.create is rejected ends in state inicio with an empty draft.
C14_UmPacientePorCpf ==
    /\ \A i, j \in 1..Len(pacientes) :
          pacientes[i].cpf = pacientes[j].cpf => i = j
    /\ (ultima.op = "chat" /\ ultima.estado_antes = "cadastro"
          /\ ultima.falhou) =>
            /\ conversa_atual.estado = "inicio"
            /\ conversa_atual.dados = Vazio

C14_Witness ==
    /\ ultima.op = "chat"
    /\ ultima.estado_antes = "cadastro"
    /\ ultima.falhou
    /\ \E i \in 1..Len(pacientes) : pacientes[i].cpf = "22222222222"
    /\ \E s \in SessoesConc \ {ultima.sessao} :
          /\ s \in DOMAIN conversas
          /\ conversas[s].estado = "local"
          /\ pacientes[conversas[s].paciente_id].cpf = "22222222222"

\* the messages of MensagensCadastro that are malformed for each field: the
\* ID asked for in aguardando_cpf and the four validated steps of cadastro
Malformadas ==
    [cpf |-> MensagensCadastro \ {"22222222222"},
     data_nascimento |-> MensagensCadastro \ {"15/03/1990"},
     telefone |-> MensagensCadastro \ {"22222222222", "3133334444"},
     email |-> MensagensCadastro \ {"b@x.io", "pular"},
     carteirinha |-> {"12345", "b@x.io"}]

\* the field the next request is validated for; "" when it is none
CampoValidado ==
    IF ultima'.op # "chat" THEN ""
    ELSE LET c == conversa_da_sessao(ultima'.sessao)
             m == ultima'.mensagem
         IN IF palavras_chave[m].saudacao \/ palavras_chave[m].cancelamento
            THEN ""
            ELSE IF c.estado = "aguardando_cpf" THEN "cpf"
            ELSE IF c.estado = "cadastro"
                    /\ get(c.dados, "etapa_cadastro", "nome") # "nome"
            THEN get(c.dados, "etapa_cadastro", "nome")
            ELSE ""

\* C15: when the validator of a field rejects the message (the ID in
\* aguardando_cpf; the birth date, the telephone, the e-mail or the card
\* number in cadastro) the response has success = false, the conversation
\* (state, step, draft, patient reference) is unchanged and no patient and
\* no appointment is created.
C15_ValidacaoRejeitada ==
    [][ ( /\ CampoValidado # ""
          /\ ultima'.mensagem \in Malformadas[CampoValidado] ) =>
          LET s == ultima'.sessao
          IN /\ ~ultima'.resp.success
             /\ conversas'[s] = conversa_da_sessao(s)
             /\ pacientes' = pacientes
             /\ agendamentos' = agendamentos ]_vars

C15_Witness ==
    /\ ultima.op = "chat"
    /\ ultima.mensagem = "12345"
    /\ ultima.estado_antes = "cadastro"
    /\ ~ultima.resp.success
    /\ conversa_atual.estado = "cadastro"
    /\ get(conversa_atual.dados, "etapa_cadastro", "") = "telefone"

\* the step after each step of the registration
ProximaEtapa ==
    [nome |-> "data_nascimento", data_nascimento |-> "telefone",
     telefone |-> "email", email |-> "carteirinha"]

\* the next request is handled by _processar_cadastro
TurnoDeCadastro ==
    /\ ultima'.op = "chat"
    /\ conversa_da_sessao(ultima'.sessao).estado = "cadastro"
    /\ ~palavras_chave[ultima'.mensagem].saudacao
    /\ ~palavras_chave[ultima'.mensagem].cancelamento

\* C20: the registration goes through the steps nome, data_nascimento,
\* telefone, email, carteirinha in this order; a request moves it to the
\* next step when its message is accepted for the current step and leaves
\* it where it is otherwise; a patient is created only by the request
\* accepted at step carteirinha, which creates exactly one, with the ID of
\* the draft, and leaves the conversation in state local with this patient
\* as its patient reference.
C20_EtapasDoCadastro ==
    [][ /\ pacientes' # pacientes =>
              /\ TurnoDeCadastro
              /\ get(conversa_da_sessao(ultima'.sessao).dados,
                     "etapa_cadastro", "nome") = "carteirinha"
        /\ TurnoDeCadastro =>
              LET s == ultima'.sessao
                  c == conversa_da_sessao(s)
                  etapa == get(c.dados, "etapa_cadastro", "nome")
                  aceita == \/ etapa = "nome"
                            \/ ultima'.mensagem \notin Malformadas[etapa]
              IN IF etapa = "carteirinha"
                 THEN IF aceita
                      THEN /\ Len(pacientes') = Len(pacientes) + 1
                           /\ SubSeq(pacientes', 1, Len(pacientes))
                                 = pacientes
                           /\ pacientes'[Len(pacientes')].cpf = c.dados["cpf"]
                           /\ conversas'[s].estado = "local"
                           /\ conversas'[s].paciente_id = Len(pacientes')
                      ELSE /\ pacientes' = pacientes
                           /\ conversas'[s] = c
                 ELSE /\ pacientes' = pacientes
                      /\ conversas'[s].estado = "cadastro"
                      /\ get(conversas'[s].dados, "etapa_cadastro", "nome")
                           = IF aceita THEN ProximaEtapa[etapa] ELSE etapa
      ]_vars

C20_Witness ==
    /\ ultima.op = "chat"
    /\ ultima.estado_antes = "cadastro"
    /\ ultima.resp.message = "cadastro_realizado"
    /\ conversa_atual.estado = "local"
    /\ conversa_atual.paciente_id = Len(pacientes)
    /\ pacientes[Len(pacientes)].cpf = "22222222222"
    /\ pacientes[Len(pacientes)].telefone = "3133334444"
    /\ pacientes[Len(pacientes)].email = "b@x.io"

-----------------------------------------------------------------------------
(* Properties of the intent classifier, checked under SpecFuncoes           *)

\* the messages of MensagensClassificador no keyword list matches
SemPalavraChave == {"preciso de um medico", "quero marcar"}

\* the answers of TextosIA that are a label once the blanks around them are
\* dropped and the letters are lower-cased, without being a label as they are
QuaseRotulos == {" Cancelamento", "CONSULTA\n", "Informacao "}

\* C16 as stated: the classifier always returns one of the five labels, and
\* when no keyword matches and the remote call fails or its answer is not
\* exactly one of the five labels, it returns agendamento.
C16_RespostaExata ==
    ultima.op = "detectar_tipo" =>
        /\ ultima.tipo \in Rotulos
        /\ ( ultima.mensagem \in SemPalavraChave /\ ultima.ia \notin Rotulos )
              => ultima.tipo = "agendamento"

\* C16: the classifier always returns one of the five labels; when no
\* keyword matches, an answer of the remote classifier that is one of the
\* five labels is returned, and a failed call, an empty answer, or an answer
\* that is not one of the five labels after dropping the blanks around it
\* and lower-casing it gives agendamento.
C16_RespostaNormalizada ==
    ultima.op = "detectar_tipo" =>
        /\ ultima.tipo \in Rotulos
        /\ ultima.mensagem \in SemPalavraChave =>
              IF ultima.ia \in Rotulos THEN ultima.tipo = ultima.ia
              ELSE IF ultima.ia \in QuaseRotulos
              THEN ultima.tipo # "agendamento"
              ELSE ultima.tipo = "agendamento"

C16_Witness ==
    /\ ultima.op = "detectar_tipo"
    /\ ultima.mensagem = "quero marcar"
    /\ ultima.ia = "informacao."
    /\ ultima.tipo = "agendamento"

\* the keyword lists in the order of their priority
Prioridade == <<"cancelamento", "consulta", "informacao", "fora_escopo">>

\* the keyword lists that have a keyword in each message
ListasQueCasam ==
    [m \in MensagensClassificador |->
        CASE m = "cancelar" -> {1}
          [] m = "ver consultas" -> {2}
          [] m = "telefone" -> {3}
          [] m = "clima" -> {4}
          [] m = "cancelar telefone" -> {1, 3}
          [] m = "desmarcar minhas consultas e o clima" -> {1, 2, 4}
          [] m = "ver consultas telefone" -> {2, 3}
          [] m = "meus agendamentos futebol" -> {2, 4}
          [] m = "telefone tempo" -> {3, 4}
          [] m = "Onde Fica o Clima" -> {3, 4}
          [] OTHER -> {}]

\* C18: a message with keywords of one or more lists gets the label of the
\* first of cancelamento, consulta, informacao, fora_escopo that has a
\* keyword in it, whatever the remote classifier would answer.
C18_PrioridadeDasListas ==
    ( ultima.op = "detectar_tipo" /\ ListasQueCasam[ultima.mensagem] # {} ) =>
        \E i \in ListasQueCasam[ultima.mensagem] :
            /\ \A j \in ListasQueCasam[ultima.mensagem] : i <= j
            /\ ultima.tipo = Prioridade[i]

C18_Witness ==
    /\ ultima.op = "detectar_tipo"
    /\ ultima.mensagem = "ver consultas telefone"
    /\ ultima.ia = "fora_escopo"
    /\ ultima.tipo = "consulta"

-----------------------------------------------------------------------------
(* Properties of the draft and of the state inicio, checked under Spec      *)

\* the responses that close a flow: the booking confirmed, the appointment
\* cancelled, the appointments of the patient listed (or none to list)
FluxoConcluido ==
    {"agendamento_confirmado", "agendamento_cancelado", "seus_agendamentos",
     "sem_agendamentos"}

\* C17: a conversation in state finalizado has an empty draft; the draft is
\* empty after every request that closes a flow (booking confirmed,
\* cancellation done, lookup done) and after every request that resets the
\* conversation with a greeting.
C17_RascunhoVazioAoConcluir ==
    /\ \A s \in DOMAIN conversas :
          conversas[s].estado = "finalizado" => conversas[s].dados = Vazio
    /\ ultima.op = "chat" =>
          /\ ultima.resp.message \in FluxoConcluido
                => conversa_atual.dados = Vazio
          /\ ( /\ palavras_chave[ultima.mensagem].saudacao
               /\ ~palavras_chave[ultima.mensagem].cancelamento )
                => conversa_atual.dados = Vazio

\* the state each label leads to from inicio
Sucessor ==
    [agendamento |-> "aguardando_cpf", cancelamento |-> "cancelamento",
     consulta |-> "consulta_agendamentos", informacao |-> "inicio",
     fora_escopo |-> "inicio"]

\* C19: a request made in state inicio leaves the conversation in the state
\* its label stands for (agendamento: aguardando_cpf, cancelamento:
\* cancelamento, consulta: consulta_agendamentos, informacao and
\* fora_escopo: inicio), a message with a cancellation keyword counting as
\* cancelamento, and creates or changes no patient and no appointment.
C19_InicioSegueORotulo ==
    [][ ( /\ ultima'.op = "chat"
          /\ conversa_da_sessao(ultima'.sessao).estado = "inicio" ) =>
          /\ conversas'[ultima'.sessao].estado
                = IF ultima'.tipo # "" THEN Sucessor[ultima'.tipo]
                  ELSE "cancelamento"
          /\ pacientes' = pacientes
          /\ agendamentos' = agendamentos ]_vars

C19_Witness ==
    /\ ultima.op = "chat"
    /\ ultima.estado_antes = "inicio"
    /\ ultima.mensagem = "Contagem"
    /\ ultima.tipo = "informacao"
    /\ conversa_atual.estado = "inicio"
    /\ agendamentos # << >>

-----------------------------------------------------------------------------
(* Properties of the slot offer, checked under SpecAgenda                   *)

\* the responses given when there is no slot to offer
SemHorarios ==
    {"sem_medicos_da_especialidade", "sem_medicos_ou_horarios",
     "sem_horarios_proximos_dias"}

\* C21: when there is no slot for the specialty at the location (no row of
\* a doctor qualifies, or no slot is generated), the conversation is in
\* state especialidade after the request.
C21_SemHorariosVoltaParaEspecialidade ==
    ( ultima.op = "chat" /\ ultima.resp.message \in SemHorarios ) =>
        conversa_atual.estado = "especialidade"

-----------------------------------------------------------------------------
(* Properties of slot generation when a lookup raises, checked under       *)
(* SpecGeradorFalhas                                                       *)

\* C22: when a lookup of slot generation raises, the occupancy query
\* included, the list returned is empty.
C22_FalhaGeraListaVazia ==
    ( ultima.op = "gerar" /\ ultima.falha # "nenhuma" ) => gerados = << >>

-----------------------------------------------------------------------------
(* Properties of the choice by date and time, checked under SpecFuncoes     *)

\* the (day, month) and the (hour, minute) each message of TextosLivres
\* names; << >> for a part it does not name
Fragmentos ==
    [t \in TextosLivres |->
        CASE t = "07/01" -> [data |-> <<7, 1>>, hora |-> << >>]
          [] t = "08:30" -> [data |-> << >>, hora |-> <<8, 30>>]
          [] t = "07/01 08:30" -> [data |-> <<7, 1>>, hora |-> <<8, 30>>]
          [] t = "14/01 as 8h" -> [data |-> <<14, 1>>, hora |-> <<8, 0>>]
          [] t = "14/01 08:30" -> [data |-> <<14, 1>>, hora |-> <<8, 30>>]
          [] t = "09/01" -> [data |-> <<9, 1>>, hora |-> << >>]
          [] t = "dia 7-1" -> [data |-> <<7, 1>>, hora |-> << >>]
          [] t = "8 horas" -> [data |-> << >>, hora |-> <<8, 0>>]
          [] t = "10h" -> [data |-> << >>, hora |-> <<10, 0>>]
          [] t = "8.1 8h30" -> [data |-> <<8, 1>>, hora |-> <<8, 30>>]
          [] OTHER -> [data |-> << >>, hora |-> << >>]]

\* candidate i of the list is of the date and of the time of the fragments
Satisfaz(i, f) ==
    /\ f.data # << >> =>
          /\ data_de(gerados[i].data).dia = f.data[1]
          /\ data_de(gerados[i].data).mes = f.data[2]
    /\ f.hora # << >> => gerados[i].hora = 60 * f.hora[1] + f.hora[2]

\* C23: for a message that is not a number the choice interpreter returns
\* the first candidate of the list that is of the date the message names,
\* when it names one, and of the time it names, when it names one; no
\* candidate when none is; the first candidate of a list that is not empty
\* when the message names neither.
C23_EscolhaPorDataEHora ==
    ultima.op = "interpretar_escolha_livre" =>
        LET f == Fragmentos[ultima.mensagem]
            bons == { i \in 1..Len(gerados) : Satisfaz(i, f) }
        IN IF bons = {} THEN ultima.indice = NULO
           ELSE /\ ultima.indice \in bons
                /\ \A i \in bons : ultima.indice <= i

C23_Witness ==
    /\ ultima.op = "interpretar_escolha_livre"
    /\ ultima.mensagem = "07/01 08:30"
    /\ Len(gerados) = MaxHorarios
    /\ ultima.indice = 4

-----------------------------------------------------------------------------
(* Properties of the attachment request, checked under SpecAnexo            *)

\* the next request is a chat message handled in state solicitacao_anexo
TurnoDeAnexo ==
    /\ ultima'.op = "chat"
    /\ conversa_da_sessao(ultima'.sessao).estado = "solicitacao_anexo"
    /\ ~palavras_chave[ultima'.mensagem].saudacao
    /\ ~palavras_chave[ultima'.mensagem].cancelamento

\* C24: in state solicitacao_anexo a message that asks for the link
\* ("link", "upload", "anexo") creates one appointment with status
\* pendente_anexo for the doctor, the date and the time of the draft, the
\* response carries its id, and the conversation stays in
\* solicitacao_anexo with the other entries of the draft as they were.
C24_LinkCriaTemporario ==
    [][ ( TurnoDeAnexo /\ ultima'.mensagem \in {"link", "upload", "anexo"} )
        => LET s == ultima'.sessao
               c == conversa_da_sessao(s)
               novo == agendamentos'[Len(agendamentos')]
           IN /\ Len(agendamentos') = Len(agendamentos) + 1
              /\ novo.status = "pendente_anexo"
              /\ novo.medico_id = c.dados["medico_id"]
              /\ novo.data = c.dados["data_agendamento"]
              /\ novo.hora = c.dados["hora_agendamento"]
              /\ ultima'.resp.agendamento_id = Len(agendamentos')
              /\ conversas'[s].estado = "solicitacao_anexo"
              /\ \A k \in DOMAIN c.dados \ {"agendamento_temp_id"} :
                    /\ k \in DOMAIN conversas'[s].dados
                    /\ conversas'[s].dados[k] = c.dados[k] ]_vars

\* the messages of MensagensAnexo that say the attachment was sent
Enviado == {"enviei", "upload", "sim"}

\* C25: a conversation goes from solicitacao_anexo to confirmacao with the
\* attachment marked as received only by a chat message that says it was
\* sent, and a file upload changes no conversation.
C25_AnexoSoPorMensagem ==
    [][ /\ \A s \in DOMAIN conversas :
              ( /\ conversas[s].estado = "solicitacao_anexo"
                /\ conversas'[s].estado = "confirmacao"
                /\ get(conversas'[s].dados, "anexo_recebido", FALSE) )
              => /\ ultima'.op = "chat"
                 /\ ultima'.sessao = s
                 /\ ultima'.mensagem \in Enviado
        /\ ultima'.op = "upload" => conversas' = conversas ]_vars

\* the next request is a chat message handled in state confirmacao
TurnoDeConfirmacao ==
    /\ ultima'.op = "chat"
    /\ conversa_da_sessao(ultima'.sessao).estado = "confirmacao"
    /\ ~palavras_chave[ultima'.mensagem].saudacao
    /\ ~palavras_chave[ultima'.mensagem].cancelamento

\* the replies of MensagensAnexo that say yes, and those that say no
Afirmativas == {"sim"}

Negativas == {"nao", "nao sei"}

\* C26: in state confirmacao a reply that says yes leaves the conversation
\* in finalizado with an empty draft and is the only one that creates or
\* changes an appointment; a reply that says no leaves the appointments as
\* they are and the conversation in horarios; any other message leaves
\* the appointments and the conversation as they are.
C26_ConfirmacaoSoComSim ==
    [][ TurnoDeConfirmacao =>
          LET s == ultima'.sessao
              c == conversa_da_sessao(s)
          IN IF ultima'.mensagem \in Afirmativas
             THEN /\ conversas'[s].estado = "finalizado"
                  /\ conversas'[s].dados = Vazio
             ELSE IF ultima'.mensagem \in Negativas
             THEN /\ agendamentos' = agendamentos
                  /\ conversas'[s].estado = "horarios"
             ELSE /\ agendamentos' = agendamentos
                  /\ conversas'[s] = c ]_vars

\* the rows of agendamentos for the doctor, the date and the time of row i
DoMesmoHorario(i) ==
    { j \in 1..Len(agendamentos) :
        /\ agendamentos[j].paciente_id = agendamentos[i].paciente_id
        /\ agendamentos[j].medico_id = agendamentos[i].medico_id
        /\ agendamentos[j].data = agendamentos[i].data
        /\ agendamentos[j].hora = agendamentos[i].hora }

\* C27: when the booking of a specialty that requires an attachment is
\* confirmed, the appointment of the response is the only one of the
\* patient for that doctor, date and time, and no appointment of the
\* patient is left with status pendente_anexo.
C27_TemporarioEPromovido ==
    ( /\ ultima.op = "chat"
      /\ ultima.resp.message = "agendamento_confirmado"
      /\ Especialidades[agendamentos[ultima.resp.agendamento_id]
                            .especialidade_id].requer_anexo ) =>
        /\ DoMesmoHorario(ultima.resp.agendamento_id)
              = {ultima.resp.agendamento_id}
        /\ \A j \in 1..Len(agendamentos) :
              agendamentos[j].paciente_id = conversa_atual.paciente_id
                => agendamentos[j].status # "pendente_anexo"

-----------------------------------------------------------------------------
(* Properties of the cancellation and of the lookup, checked under         *)
(* SpecCancelamento                                                        *)

\* the integer each message of MensagensCancelamento is; << >> for a
\* message that is not an integer
InteiroDe ==
    [t \in MensagensCancelamento |->
        CASE t = "0" -> <<0>> [] t = "1" -> <<1>> [] t = "2" -> <<2>>
          [] t = "3" -> <<3>> [] t = "+1" -> <<1>> [] t = "-1" -> <<0 - 1>>
          [] OTHER -> << >>]

\* the next request is a chat message handled in state cancelamento after
\* the list of appointments was shown
TurnoDeCancelamento ==
    /\ ultima'.op = "chat"
    /\ conversa_da_sessao(ultima'.sessao).estado = "cancelamento"
    /\ tem(conversa_da_sessao(ultima'.sessao).dados,
           "agendamentos_para_cancelar")
    /\ ~palavras_chave[ultima'.mensagem].saudacao

C29_ConsultaVoltaAoInicio ==
    [][ ( /\ ultima'.op = "chat"
          /\ conversa_da_sessao(ultima'.sessao).estado
                = "consulta_agendamentos"
          /\ ultima'.mensagem = "11111111111" ) =>
          /\ conversas'[ultima'.sessao].estado \in {"inicio", "finalizado"}
          /\ conversas'[ultima'.sessao].dados = Vazio
          /\ agendamentos' = agendamentos ]_vars

-----------------------------------------------------------------------------
(* Properties of the order of the scan, checked under SpecGerador           *)

\* the rows slot generation is applied to
LinhasDaGeracao ==
    consulta_medicos_horarios(medicos, horarios_disp, 1, 1, 1)

\* the start times of the slots of a row
InstantesDaLinha(row) ==
    LET passo == IF row.duracao_consulta < 5 THEN 30
                 ELSE row.duracao_consulta
    IN { row.hora_inicio + n * passo :
           n \in 0..((row.hora_fim - row.hora_inicio) \div passo) }

\* the slots <<day of the window, row, start time>> that qualify: on a
\* working day, of the weekday of the row, with the agenda of the doctor
\* open, before the end of the row, not within the hour from now, and
\* without a scheduled appointment
Qualificados ==
    { q \in UNION { {<<dia, i, t>> : t \in InstantesDaLinha(LinhasDaGeracao[i])} :
                      dia \in 0..49, i \in 1..Len(LinhasDaGeracao) } :
        LET row == LinhasDaGeracao[q[2]]
            data == hoje + q[1]
        IN /\ weekday(data) < 5
           /\ row.dia_semana = weekday(data)
           /\ \/ medicos[row.id].data_abertura_agenda = NULO
              \/ data >= medicos[row.id].data_abertura_agenda
           /\ q[3] < row.hora_fim
           /\ ~(q[1] = 0 /\ q[3] <= agora + 60)
           /\ ~ \E j \in 1..Len(agendamentos) :
                   /\ agendamentos[j].medico_id = row.id
                   /\ agendamentos[j].data = data
                   /\ agendamentos[j].hora = q[3]
                   /\ agendamentos[j].status = "agendado" }

\* q1 is met before q2 in the scan: by day, then by row, then by time
Antes(q1, q2) ==
    \/ q1[1] < q2[1]
    \/ q1[1] = q2[1] /\ q1[2] < q2[2]
    \/ q1[1] = q2[1] /\ q1[2] = q2[2] /\ q1[3] < q2[3]

\* the first five of the qualifying slots in the order of the scan
PrimeirosDe(qualificados) ==
    { q \in qualificados :
        Cardinality({ p \in qualificados : Antes(p, q) }) < 5 }

\* C30: the slots returned are the first min(5, N) of the N qualifying
\* slots in the order of the scan (days ascending, rows in their order,
\* times ascending); no slot met later, a Thursday slot included, takes
\* the place of one met earlier.
C30_PrimeirosDaVarredura ==
    ultima.op = "gerar" =>
        LET primeiros_qualificados == PrimeirosDe(Qualificados)
        IN /\ Len(gerados) = Cardinality(primeiros_qualificados)
           /\ { <<gerados[i].medico_id, gerados[i].data, gerados[i].hora>> :
                  i \in 1..Len(gerados) }
                = { <<LinhasDaGeracao[q[2]].id, hoje + q[1], q[3]>> :
                      q \in primeiros_qualificados }

C30_Witness ==
    /\ ultima.op = "gerar"
    /\ Len(gerados) = MaxHorarios
    /\ \E i \in 1..Len(gerados) : weekday(gerados[i].data) # Quinta
    /\ LET qualificados == Qualificados
       IN /\ Cardinality(qualificados) > MaxHorarios
          /\ \E q \in qualificados \ PrimeirosDe(qualificados) :
                /\ weekday(hoje + q[1]) = Quinta
                /\ q[1] < 7

-----------------------------------------------------------------------------
(* The agenda-open date of a doctor, checked under SpecGerador             *)

\* C31: no slot returned is of a date before the agenda-open date of its
\* doctor, when the doctor has one; the slots of a doctor without such a
\* date that qualify on every other ground are all returned while the list
\* has room.
C31_AgendaAberta ==
    ultima.op = "gerar" =>
        /\ \A i \in 1..Len(gerados) :
              \/ medicos[gerados[i].medico_id].data_abertura_agenda = NULO
              \/ gerados[i].data
                   >= medicos[gerados[i].medico_id].data_abertura_agenda
        /\ Len(gerados) < MaxHorarios =>
              \A q \in Qualificados :
                  medicos[LinhasDaGeracao[q[2]].id].data_abertura_agenda = NULO
                  => \E i \in 1..Len(gerados) :
                        /\ gerados[i].medico_id = LinhasDaGeracao[q[2]].id
                        /\ gerados[i].data = hoje + q[1]
                        /\ gerados[i].hora = q[3]

C31_Witness ==
    /\ ultima.op = "gerar"
    /\ medicos[1].data_abertura_agenda # NULO
    /\ \E i \in 1..Len(gerados) :
          /\ gerados[i].medico_id = 1
          /\ gerados[i].data >= medicos[1].data_abertura_agenda
    /\ \E j \in 1..Len(gerados) :
          /\ gerados[j].medico_id = 2
          /\ gerados[j].data < medicos[1].data_abertura_agenda
    /\ \E k \in 1..Len(LinhasDaGeracao) :
          /\ LinhasDaGeracao[k].id = 1
          /\ LinhasDaGeracao[k].dia_semana = weekday(hoje + 1)

-----------------------------------------------------------------------------
(* Slot generation and the recurring appointments, under SpecRecorrentes   *)

\* C32: two runs of slot generation that differ only in the rows of
\* agendamentos_recorrentes return the same list; a returned slot may be
\* one that _verificar_disponibilidade_slot, which consults those rows,
\* reports as taken.
C32_ListaNaoDependeDeRecorrentes ==
    [][ (ultima.op = "gerar" /\ ultima'.op = "gerar") =>
            gerados' = gerados ]_vars

C32_Witness ==
    /\ ultima.op = "gerar"
    /\ recorrentes # << >>
    /\ \E i \in 1..Len(gerados) :
          ~verificar_disponibilidade_slot(agendamentos, recorrentes,
                                          gerados[i].medico_id,
                                          gerados[i].data, gerados[i].hora)

-----------------------------------------------------------------------------
(* The clean-up of abandoned conversations, under SpecLimpeza              *)

\* the conversations a request deleted
Apagadas == (DOMAIN conversas) \ (DOMAIN conversas')

\* C33: a request deletes only conversations that are not finished and
\* were last updated more than six hours before it; never a finished one,
\* one updated within the last six hours, or that of the request itself.
C33_LimpezaSoDeAbandonadas ==
    [][ \A x \in Apagadas :
            /\ ultima'.op = "chat"
            /\ conversas[x].estado # "finalizado"
            /\ timestamp(hoje, agora) - atualizado_em[x] > 6 * 60
            /\ x # ultima'.sessao ]_vars

C33_Witness ==
    /\ ultima.op = "chat"
    /\ ultima.apagadas # {}
    /\ \E x \in DOMAIN conversas :
          /\ x # ultima.sessao
          /\ conversas[x].estado = "finalizado"
          /\ timestamp(hoje, agora) - atualizado_em[x] > 6 * 60

-----------------------------------------------------------------------------
(* The state a response announces and the state that is stored             *)

\* C34: after every message processed, in every state, the proximo_estado
\* of the response is the state of the conversation that /chat saves.
C34_ProximoEstadoGuardado ==
    ultima.op = "chat" =>
        ultima.resp.proximo_estado = conversas[ultima.sessao].estado

-----------------------------------------------------------------------------
(* What the draft holds in the states of a booking                         *)

\* C35: in every reachable state a conversation in especialidade,
\* horarios, solicitacao_anexo or confirmacao has its patient set and a
\* location in the draft; in horarios, solicitacao_anexo or confirmacao
\* the draft holds a specialty too; in solicitacao_anexo or confirmacao it
\* holds the chosen doctor, date and time as well.
C35_RascunhoDeCadaEstado ==
    \A s \in DOMAIN conversas :
        LET c == conversas[s]
        IN /\ c.estado \in {"especialidade", "horarios", "solicitacao_anexo",
                            "confirmacao"}
                => c.paciente_id # NULO /\ tem(c.dados, "local_id")
           /\ c.estado \in {"horarios", "solicitacao_anexo", "confirmacao"}
                => tem(c.dados, "especialidade_id")
           /\ c.estado \in {"solicitacao_anexo", "confirmacao"}
                => /\ tem(c.dados, "medico_id")
                   /\ tem(c.dados, "data_agendamento")
                   /\ tem(c.dados, "hora_agendamento")

C35_Witness ==
    \E s \in DOMAIN conversas :
        /\ conversas[s].estado = "confirmacao"
        /\ ultima.op = "upload"
        /\ tem(conversas[s].dados, "anexo_recebido")

-----------------------------------------------------------------------------
(* Repeated slots and the window of a row, under SpecGerador               *)

\* C36: no list that slot generation returns holds two entries of the
\* same doctor, date and time, whatever the availability rows are.
C36_SemHorarioRepetido ==
    ultima.op = "gerar" =>
        \A i, j \in 1..Len(gerados) :
            ( /\ gerados[i].medico_id = gerados[j].medico_id
              /\ gerados[i].data = gerados[j].data
              /\ gerados[i].hora = gerados[j].hora ) => i = j

\* C37: every slot returned lies inside the window of an availability row
\* of its doctor and weekday: it starts at the start of the row plus a
\* whole number of effective durations (the duration of the row when at
\* least 5 minutes, otherwise 30) and ends no later than the row ends.
C37_HorarioDentroDaJanela ==
    ultima.op = "gerar" =>
        \A i \in 1..Len(gerados) :
            \E k \in 1..Len(LinhasDaGeracao) :
                LET row == LinhasDaGeracao[k]
                    efetiva == IF row.duracao_consulta >= 5
                               THEN row.duracao_consulta ELSE 30
                IN /\ row.id = gerados[i].medico_id
                   /\ row.dia_semana = weekday(gerados[i].data)
                   /\ gerados[i].hora >= row.hora_inicio
                   /\ (gerados[i].hora - row.hora_inicio) % efetiva = 0
                   /\ gerados[i].hora + efetiva <= row.hora_fim

-----------------------------------------------------------------------------
(* The owner of a booking and of a cancellation, under SpecPacientes       *)

C39_CancelaSoDoPaciente ==
    [][ ultima'.op = "chat" =>
          \A i \in 1..Len(agendamentos) :
              agendamentos'[i] # agendamentos[i] =>
                  /\ ultima'.estado_antes = "cancelamento"
                  /\ agendamentos[i].status = "agendado"
                  /\ agendamentos'[i].status = "cancelado"
                  /\ agendamentos[i].paciente_id
                       = conversa_da_sessao(ultima'.sessao).paciente_id
                  /\ agendamentos'[i].paciente_id = agendamentos[i].paciente_id
                  /\ \A j \in 1..Len(agendamentos) :
                        j # i => agendamentos'[j] = agendamentos[j]
      ]_vars

C39_Witness ==
    /\ ultima.op = "chat"
    /\ ultima.sessao = "s1"
    /\ ultima.resp.message = "agendamento_cancelado"
    /\ conversas["s1"].paciente_id = 2
    /\ agendamentos[2].status = "cancelado"
    /\ agendamentos[1].status = "agendado"
    /\ Len(agendamentos) = 3
    /\ agendamentos[3].paciente_id = 1
    /\ agendamentos[3].status = "agendado"

-----------------------------------------------------------------------------
(* The slot of a choice and the appointments of that moment, under SpecConc *)

\* a scheduled appointment of the table before the last request holds the
\* doctor, date and time of h
OcupadoAntes(h) ==
    \E i \in 1..Len(ultima.ags_antes) :
        /\ ultima.ags_antes[i].status = "agendado"
        /\ ultima.ags_antes[i].medico_id = h.medico_id
        /\ ultima.ags_antes[i].data = h.data
        /\ ultima.ags_antes[i].hora = h.hora

\* C40: whatever the interleaving of the sessions, the slot a successful
\* choice in horarios stores in the draft had no scheduled appointment for
\* its doctor, date and time when the choice was made: the candidates are
\* generated again on every call, so a number is resolved against the
\* list of that moment.
C40_EscolhaLivreNoMomento ==
    EscolhaFeita =>
        /\ ~OcupadoAntes(ultima.escolha[1])
        /\ ~ultima.falhou =>
              /\ conversas[ultima.sessao].dados["medico_id"]
                   = ultima.escolha[1].medico_id
              /\ conversas[ultima.sessao].dados["data_agendamento"]
                   = ultima.escolha[1].data
              /\ conversas[ultima.sessao].dados["hora_agendamento"]
                   = ultima.escolha[1].hora

\* the choice "1" fell on another slot than the first of the list of a
\* table without appointments, which another session booked meanwhile
C40_Witness ==
    /\ EscolhaFeita
    /\ ultima.mensagem = "1"
    /\ LET sem_agendamentos ==
               gerar_horarios_disponiveis(
                   consulta_medicos_horarios(medicos, horarios_disp, 1, 1, 1),
                   medicos, << >>, hoje, agora, "nenhuma")
       IN /\ sem_agendamentos # << >>
          /\ OcupadoAntes(sem_agendamentos[1])
          /\ ultima.escolha[1] # sem_agendamentos[1]
          /\ ultima.escolha[1] = gerados[1]

====
